--------------------------- MODULE Firmware_proofs ---------------------------
(***************************************************************************)
(* The credential of a camera board and its commands, proved for any       *)
(* number of request handlers, codes, addresses and incidents.             *)
(*                                                                         *)
(* The handlers of the service read the row of the device and write it     *)
(* back later.  Unless such an overlap has gone wrong since the row was    *)
(* enrolled (Astray), a proof is of the row's own token (Proven), whoever  *)
(* takes the proof away from a running camera, or from one about to run,   *)
(* is under way to stop it (Stopped), and the worker at the cable writes   *)
(* its proof for the row's address if the row already has one (Compared).  *)
(* A board that waits for a claim finds the row that its claim has made    *)
(* (Awaited).  A command is in one place, whatever the handlers do         *)
(* (Whereabouts).                                                          *)
(***************************************************************************)
EXTENDS Firmware, TLAPS

-----------------------------------------------------------------------------
(* The inductive invariant.                                                *)

\* A command is queued, in the answer of one heartbeat, or has been run; and
\* it has been issued.
Whereabouts ==
    \A n \in Commands :
        /\ n \in queue => n \in spent /\ ran[n] = 0 /\ \A s \in Slots : n \notin req[s].cmds
        /\ \A s \in Slots : n \in req[s].cmds =>
              n \in spent /\ ran[n] = 0 /\ \A t \in Slots \ {s} : n \notin req[t].cmds
        /\ ran[n] # 0 => n \in spent /\ ran[n] = 1

\* Claims and heartbeats have steps of their own.  A handler is inside bind_device only where
\* its progress says so, and no claim of a REAL device is.
Binds ==
    \A s \in Slots :
        /\ req[s].pc = "txn" => req[s].kind = "claim"
        /\ req[s].pc \in {"read", "write"} => req[s].kind = "beat"
        /\ bind[s] # "no" => req[s].pc = "bind"
        /\ mode = "REAL" => req[s].pc # "rollback" /\ (req[s].pc = "bind" => req[s].kind = "beat")

\* What has gone wrong since the row was enrolled.
Astray == "reader" \in slip
Unawaited == "answer" \in slip
USE DEF Astray, Unawaited

\* A revoked row has no token, and a proof is of the row's own token.
Blank == row.revoked => row.code = 0
Proven == ~Astray /\ row.att # 0 => row.att = row.code

\* The proof that the worker at the cable is about to write is for the address of a row
\* that has a proof.
Compared == ~Astray /\ cable.pc = "write" /\ row.att # 0 => cable.snap.ip = row.ip

\* A board that waits for a claim has no token, and the row its claim has made
\* is the one that is there.
Awaited ==
    call # Nobody /\ req[call].kind = "claim" =>
        /\ board.token = 0
        /\ ~Unawaited /\ row.here /\ ~row.revoked /\ req[call].pc \in {"stop", "bind", "rollback"}
              => row.code = req[call].code

\* A running REAL camera has its proof, and one about to be opened will have it, or somebody
\* is about to stop it.
Stopping == (\E s \in Slots : req[s].pc = "stop") \/ (rev.pc = "stop" /\ rev.seen) \/ sweep = "stop"
Sound == Verified(row)
Backed == Sound /\ engine = [ip |-> row.ip, code |-> row.code]
Opening == Sound /\ cam = row.ip
Stopped ==
    mode = "REAL" =>
        /\ ~row.here => engine = Off /\ lock = Nobody
        /\ ~Astray /\ engine # Off => Backed \/ Stopping
        /\ ~Astray /\ lock # Nobody => Opening \/ Stopping

IInv == /\ TypeOK /\ Whereabouts /\ Binds /\ Blank /\ Proven /\ Compared
        /\ Awaited /\ TokenAgrees /\ Stopped

-----------------------------------------------------------------------------
(* What a step does to the request handlers and to the board.              *)

Served(s) == req' \in [Slots -> Requests] /\ \A t \in Slots \ {s} : req'[t] = req[t]

\* A handler goes on, with what it has.
Going(s, pc) ==
    /\ Served(s) /\ req'[s].pc = pc /\ req'[s].kind = req[s].kind
    /\ req'[s].code = req[s].code /\ req'[s].cmds = req[s].cmds

\* A handler is done.
Ended(s) == Served(s) /\ req'[s].pc = "free" /\ req'[s].kind = "none" /\ req'[s].cmds = {}

\* The board runs one of some commands, or none.
Ran(cmds) ==
    \/ ran' = ran
    \/ \E n \in cmds : ran'[n] = ran[n] + 1 /\ \A k \in Commands \ {n} : ran'[k] = ran[k]

\* An answer ends the wait of the board, if it still waits; the board takes a
\* token only from its own claim.
Answered(s, cmds) ==
    /\ Ended(s) /\ wire' = wire /\ board' \in Boards /\ ran' \in [Commands -> Nat] /\ Ran(cmds)
    /\ call = s => call' = Nobody
    /\ call # s => call' = call /\ board' = board
    /\ board'.token \in {board.token, 0} \/ (call = s /\ req[s].kind = "claim" /\ board'.token = req[s].code)

\* The row is written back as far as others decide by it.
Same(r, q) == r.here = q.here /\ r.code = q.code /\ r.revoked = q.revoked /\ r.ip = q.ip
                /\ r.att = q.att /\ r.attip = q.attip
RowKept == row' \in Rows /\ Same(row', row)

LEMMA Constants == Nobody \notin Slots /\ Cable \notin Slots /\ MaxCode \in Nat /\ MaxIp \in Nat /\ 1 \in Ips
                   /\ 0 \in 0 .. MaxCode /\ 0 \in 0 .. MaxIp
BY FirmwareConstants DEF Ips

LEMMA Blanks == /\ NoRow \in Rows /\ NoRequest \in Requests /\ Off \in Readers /\ IdleCable \in Cables
                /\ NoRow.here = FALSE /\ NoRow.code = 0 /\ NoRow.revoked = FALSE /\ NoRow.att = 0
                /\ NoRow.ip = 0 /\ NoRow.attip = 0
                /\ NoRequest.kind = "none" /\ NoRequest.pc = "free" /\ NoRequest.cmds = {}
                /\ IdleCable.pc = "idle"
<1>1. NoRow \in Rows
  BY Constants DEF NoRow, Rows
<1> QED BY <1>1, Constants DEF NoRow, NoRequest, Requests, Off, Readers, IdleCable, Cables

\* What is known of the records by their types.
LEMMA RowTypes == ASSUME NEW r \in Rows
    PROVE  /\ r.here \in BOOLEAN /\ r.revoked \in BOOLEAN /\ r.online \in BOOLEAN /\ r.fresh \in BOOLEAN
           /\ r.code \in 0 .. MaxCode /\ r.att \in 0 .. MaxCode /\ r.ip \in 0 .. MaxIp /\ r.attip \in 0 .. MaxIp
BY DEF Rows
LEMMA RequestTypes == ASSUME TypeOK, NEW s \in Slots
    PROVE  /\ req[s] \in Requests /\ req[s].kind \in {"none", "claim", "beat"} /\ req[s].cmds \subseteq Commands
           /\ req[s].code \in 0 .. MaxCode /\ req[s].ip \in 0 .. MaxIp /\ req[s].snap \in Rows
BY DEF TypeOK, Requests
LEMMA BoardTypes == ASSUME NEW b \in Boards
    PROVE  /\ b.pair \in 0 .. MaxCode /\ b.token \in 0 .. MaxCode /\ b.receipt \in 0 .. MaxCode
           /\ b.open \in BOOLEAN /\ b.ip \in Ips
BY DEF Boards

\* Aging a row changes nothing that anybody decides by.
LEMMA AgedKeeps == ASSUME NEW r \in Rows PROVE Aged(r) \in Rows /\ Same(Aged(r), r)
BY DEF Aged, Rows, Same
LEMMA FetchKeeps == ASSUME TypeOK, Fetch PROVE RowKept /\ engine' \in {engine, Off}
<1>1. row \in Rows /\ Same(row, row)
  BY DEF TypeOK, Same
<1>2. CASE Stale(row)
  BY <1>1, <1>2, AgedKeeps DEF Fetch, RowKept
<1>3. CASE ~Stale(row)
  BY <1>1, <1>3 DEF Fetch, RowKept
<1> QED BY <1>2, <1>3

LEMMA Spends ==
    ASSUME TypeOK, NEW k, Spend(k)
    PROVE  k \notin spent /\ k \in spent' /\ spent \subseteq spent' /\ spent' \subseteq Incidents
BY DEF TypeOK, Spend

LEMMA Steps ==
    ASSUME TypeOK, NEW s \in Slots, NEW r \in Requests, Step(s, r)
    PROVE  Served(s) /\ req'[s] = r
BY DEF TypeOK, Step, Served

LEMMA Goes ==
    ASSUME TypeOK, NEW s \in Slots, NEW pc \in {"stop", "bind", "rollback"}, Go(s, pc)
    PROVE  Going(s, pc) /\ UNCHANGED <<board, call, wire, ran>>
<1> DEFINE r == [req[s] EXCEPT !.pc = pc]
<1>1. r \in Requests /\ r.pc = pc /\ r.kind = req[s].kind /\ r.code = req[s].code /\ r.cmds = req[s].cmds
  BY RequestTypes DEF Requests
<1>2. Step(s, r)
  BY DEF Go
<1> HIDE DEF r
<1>3. Served(s) /\ req'[s] = r
  BY <1>1, <1>2, Steps
<1> QED BY <1>1, <1>3 DEF Going, Go, boardVars

\* A new request takes a free handler, and the board waits for it.
LEMMA Calls ==
    ASSUME TypeOK, NEW kind \in {"claim", "beat"}, NEW pc \in {"txn", "read"}, NEW code \in 0 .. MaxCode,
           Call(kind, pc, code)
    PROVE  /\ call = Nobody /\ call' \in Slots /\ Served(call') /\ req[call'].pc = "free"
           /\ req'[call'].kind = kind /\ req'[call'].pc = pc /\ req'[call'].cmds = {}
<1> DEFINE free == {s \in Slots : At(s, "free")}
           r == [NoRequest EXCEPT !.kind = kind, !.pc = pc, !.code = code, !.ip = board.ip]
<1>1. PICK s \in free : call = Nobody /\ call' = s /\ Step(s, r)
  BY DEF Call
<1>2. board.ip \in 0 .. MaxIp
  <2>1. board.ip \in Ips
    BY BoardTypes DEF TypeOK
  <2> QED BY <2>1, Constants DEF Ips
<1>3. r \in Requests /\ r.kind = kind /\ r.pc = pc /\ r.cmds = {}
  BY <1>2, Blanks DEF NoRequest, Requests
<1> HIDE DEF r
<1>4. Served(s) /\ req'[s] = r
  BY <1>1, <1>3, Steps
<1> QED BY <1>1, <1>3, <1>4 DEF At

LEMMA Obeyed ==
    ASSUME TypeOK, NEW cmds \in SUBSET Commands, Obeys(cmds)
    PROVE  board' \in Boards /\ ran' \in [Commands -> Nat] /\ Ran(cmds) /\ board'.token \in {board.token, 0}
<1>0. board \in Boards /\ ran \in [Commands -> Nat]
  BY DEF TypeOK
<1>1. CASE cmds = {}
  <2>1. board' = [board EXCEPT !.open = TRUE] /\ ran' = ran
    BY <1>1 DEF Obeys
  <2>2. board' \in Boards /\ board'.token = board.token
    BY <1>0, <2>1 DEF Boards
  <2> QED BY <1>0, <2>1, <2>2 DEF Ran
<1>2. CASE cmds # {}
  <2>1. PICK n \in cmds : /\ board' = (IF n = "reboot" THEN Booted(board) ELSE Wiped)
                          /\ ran' = [ran EXCEPT ![n] = @ + 1]
    BY <1>2 DEF Obeys
  <2>2. Booted(board) \in Boards /\ Booted(board).token = board.token
    BY <1>0 DEF Boards, Booted
  <2>3. Wiped \in Boards /\ Wiped.token = 0
    BY <1>0, Constants DEF Boards, Wiped
  <2>4. n \in Commands /\ ran[n] + 1 \in Nat
    BY <1>0
  <2>5. ran' \in [Commands -> Nat] /\ ran'[n] = ran[n] + 1 /\ \A k \in Commands \ {n} : ran'[k] = ran[k]
    BY <1>0, <2>1, <2>4
  <2> QED BY <2>1, <2>2, <2>3, <2>5 DEF Ran
<1> QED BY <1>1, <1>2

LEMMA Replies ==
    ASSUME TypeOK, NEW s \in Slots, NEW res \in {"ok", "error", "denied"}, NEW cmds \in SUBSET Commands,
           Reply(s, res, cmds)
    PROVE  Answered(s, cmds) /\ (res # "ok" => board'.token \in {board.token, 0})
<1>0. board \in Boards /\ ran \in [Commands -> Nat] /\ req[s].code \in 0 .. MaxCode /\ wire' = wire
  BY RequestTypes DEF TypeOK, Reply
<1>1. Ended(s)
  <2>1. Step(s, NoRequest)
    BY DEF Reply
  <2>2. Served(s) /\ req'[s] = NoRequest
    BY <2>1, Steps, Blanks
  <2> QED BY <2>2, Blanks DEF Ended
<1>2. CASE call # s
  BY <1>0, <1>1, <1>2 DEF Reply, Answered, Ran
<1>3. CASE call = s
  <2>0. call' = Nobody /\ Accepts(req[s], res, cmds)
    BY <1>3 DEF Reply
  <2>1. CASE res = "ok" /\ req[s].kind = "claim"
    <3>1. board' = [board EXCEPT !.token = req[s].code, !.pair = 0, !.open = TRUE] /\ ran' = ran
      BY <2>0, <2>1 DEF Accepts
    <3>2. board' \in Boards /\ board'.token = req[s].code
      BY <1>0, <3>1, Constants DEF Boards
    <3> QED BY <1>0, <1>1, <1>3, <2>0, <2>1, <3>1, <3>2 DEF Answered, Ran
  <2>2. CASE res = "ok" /\ req[s].kind = "beat"
    <3>1. Obeys(cmds)
      BY <2>0, <2>2 DEF Accepts
    <3> QED BY <1>0, <1>1, <1>3, <2>0, <2>2, <3>1, Obeyed DEF Answered
  <2>3. CASE res = "denied"
    <3>1. board' = [board EXCEPT !.token = 0, !.open = FALSE] /\ ran' = ran
      BY <2>0, <2>3 DEF Accepts
    <3>2. board' \in Boards /\ board'.token = 0
      BY <1>0, <3>1, Constants DEF Boards
    <3> QED BY <1>0, <1>1, <1>3, <2>0, <3>1, <3>2 DEF Answered, Ran
  <2>4. CASE res # "denied" /\ ~(res = "ok" /\ req[s].kind \in {"claim", "beat"})
    <3>1. board' = board /\ ran' = ran
      BY <2>0, <2>4 DEF Accepts
    <3> QED BY <1>0, <1>1, <1>3, <2>0, <3>1 DEF Answered, Ran
  <2> QED BY <2>1, <2>2, <2>3, <2>4
<1> QED BY <1>2, <1>3

-----------------------------------------------------------------------------
(* What keeps the parts of the invariant.                                  *)

\* Commands stay where they are, or are lost.
LEMMA WhereaboutsOn ==
    ASSUME Whereabouts, queue' \subseteq queue, spent \subseteq spent', ran' = ran,
           \A s \in Slots : req'[s].cmds \subseteq req[s].cmds
    PROVE  Whereabouts'
BY DEF Whereabouts

\* An answer delivers its commands.
LEMMA WhereaboutsAnswered ==
    ASSUME TypeOK, Whereabouts, NEW s \in Slots, Answered(s, req[s].cmds), UNCHANGED <<queue, spent>>
    PROVE  Whereabouts'
<1>0. ran \in [Commands -> Nat] /\ req[s].cmds \subseteq Commands
  BY RequestTypes DEF TypeOK
<1>1. req'[s].cmds = {} /\ \A t \in Slots \ {s} : req'[t] = req[t]
  BY DEF Answered, Ended, Served
<1>2. CASE ran' = ran
  BY <1>1, <1>2, WhereaboutsOn
<1>3. ASSUME NEW n \in req[s].cmds, ran'[n] = ran[n] + 1, \A k \in Commands \ {n} : ran'[k] = ran[k]
      PROVE  Whereabouts'
  <2>1. n \in Commands /\ n \in spent /\ ran[n] = 0 /\ n \notin queue /\ \A t \in Slots \ {s} : n \notin req[t].cmds
    BY <1>0 DEF Whereabouts
  <2>2. ran'[n] = 1
    BY <1>0, <1>3, <2>1
  <2>3. \A t \in Slots : n \notin req'[t].cmds
    BY <1>1, <2>1
  <2> QED BY <1>1, <1>3, <2>1, <2>2, <2>3 DEF Whereabouts
<1> QED BY <1>2, <1>3 DEF Answered, Ran

\* A heartbeat that answers at once delivers what is queued.
LEMMA WhereaboutsEmptied ==
    ASSUME TypeOK, Whereabouts, NEW s \in Slots, Answered(s, queue), queue' = {}, spent' = spent
    PROVE  Whereabouts'
<1>0. ran \in [Commands -> Nat] /\ queue \subseteq Commands
  BY DEF TypeOK
<1>1. req'[s].cmds = {} /\ \A t \in Slots \ {s} : req'[t] = req[t]
  BY DEF Answered, Ended, Served
<1>2. CASE ran' = ran
  BY <1>1, <1>2, WhereaboutsOn
<1>3. ASSUME NEW n \in queue, ran'[n] = ran[n] + 1, \A k \in Commands \ {n} : ran'[k] = ran[k]
      PROVE  Whereabouts'
  <2>1. n \in Commands /\ n \in spent /\ ran[n] = 0 /\ \A t \in Slots : n \notin req[t].cmds
    BY <1>0 DEF Whereabouts
  <2>2. ran'[n] = 1
    BY <1>0, <1>3, <2>1
  <2>3. \A t \in Slots : n \notin req'[t].cmds
    BY <1>1, <2>1
  <2> QED BY <1>1, <1>3, <2>1, <2>2, <2>3 DEF Whereabouts
<1> QED BY <1>2, <1>3 DEF Answered, Ran

\* One that has a camera to see to takes them along.
LEMMA WhereaboutsTaken ==
    ASSUME TypeOK, Whereabouts, NEW s \in Slots, Served(s), req'[s].cmds = queue, queue' = {}, UNCHANGED <<spent, ran>>
    PROVE  Whereabouts'
<1>1. \A t \in Slots \ {s} : req'[t] = req[t]
  BY DEF Served
<1> QED BY <1>1 DEF Whereabouts

\* The row is kept.
LEMMA RowOn ==
    ASSUME Blank, Proven, RowKept, slip \subseteq slip'
    PROVE  Blank' /\ Proven'
BY DEF Blank, Proven, RowKept, Same
LEMMA ComparedOn ==
    ASSUME Compared, RowKept, slip \subseteq slip', cable' = cable
    PROVE  Compared'
BY DEF Compared, RowKept, Same
LEMMA TokenOn ==
    ASSUME TokenAgrees, RowKept, slip \subseteq slip',
           board'.token \in {board.token, 0}
    PROVE  TokenAgrees'
BY DEF TokenAgrees, RowKept, Same

\* The board goes on waiting for an untouched claim, or stops waiting.
LEMMA AwaitedOn ==
    ASSUME Awaited, RowKept, slip \subseteq slip', call' \in {call, Nobody},
           call' # Nobody => board'.token = board.token /\ req'[call] = req[call]
    PROVE  Awaited'
BY DEF Awaited, RowKept, Same
LEMMA AwaitedGoing ==
    ASSUME Awaited, NEW s \in Slots, NEW pc, Going(s, pc), req[s].pc \in {"stop", "bind", "rollback"},
           UNCHANGED <<row, slip, call, board>>, call \in Slots \cup {Nobody}
    PROVE  Awaited'
BY DEF Awaited, Going, Served
LEMMA AwaitedAnswered ==
    ASSUME Awaited, NEW s \in Slots, NEW cmds, Answered(s, cmds), call \in Slots \cup {Nobody},
           slip \subseteq slip', RowKept \/ ~row'.here \/ (call # s => Unawaited')
    PROVE  Awaited'
<1>1. CASE call = s
  BY <1>1 DEF Awaited, Answered
<1>2. CASE call # s
  <2>1. call' = call /\ board' = board /\ (call # Nobody => req'[call] = req[call])
    BY <1>2 DEF Answered, Ended, Served
  <2> QED BY <1>2, <2>1 DEF Awaited, RowKept, Same
<1> QED BY <1>1, <1>2

\* A camera that has been stopped, and a row that is kept while whoever was
\* about to stop the camera still is.
LEMMA StoppedOff == ASSUME engine' = Off, lock' = Nobody PROVE Stopped'
BY DEF Stopped
LEMMA StoppedNow == ASSUME Stopping', row'.here PROVE Stopped'
BY DEF Stopped
LEMMA StoppedThen ==
    ASSUME Stopped, mode' = mode, slip \subseteq slip', row.here => row'.here,
           ~Astray' /\ mode = "REAL" /\ Sound => Sound' /\ row'.ip = row.ip /\ row'.code = row.code,
           engine' \in {engine, Off}, lock' \in {lock, Nobody}, cam' = cam, Stopping => Stopping'
    PROVE  Stopped'
<1>1. ~Astray' => ~Astray
  OBVIOUS
<1>2. ~Astray' /\ mode = "REAL" => (Backed /\ engine' = engine => Backed') /\ (Opening => Opening')
  BY DEF Backed, Opening
<1> HIDE DEF Sound
<1> QED BY <1>1, <1>2 DEF Stopped
LEMMA StoppedOn ==
    ASSUME Stopped, mode' = mode, slip \subseteq slip', RowKept,
           engine' \in {engine, Off}, lock' \in {lock, Nobody}, cam' = cam, Stopping => Stopping'
    PROVE  Stopped'
<1>1. row'.here = row.here /\ row'.ip = row.ip /\ row'.code = row.code /\ (Sound => Sound')
  BY DEF RowKept, Same, Sound, Verified
<1> QED BY <1>1, StoppedThen

\* A handler that is not at its stop takes no stop away.
LEMMA StoppingServed ==
    ASSUME NEW s \in Slots, Served(s), req[s].pc # "stop", UNCHANGED <<rev, sweep>>
    PROVE  Stopping => Stopping'
BY DEF Stopping, Served
LEMMA StoppingSame ==
    ASSUME UNCHANGED <<req, rev, sweep>>
    PROVE  Stopping => Stopping'
BY DEF Stopping

LEMMA RowSame == ASSUME TypeOK, row' = row PROVE RowKept
BY DEF TypeOK, RowKept, Same

\* A heartbeat that has a camera to see to keeps the commands for its answer.
Busied(s, pc) == [req[s] EXCEPT !.pc = pc, !.cmds = queue, !.snap = NoRow]
Serving(s, pc) ==
    Served(s) /\ req'[s].pc = pc /\ req'[s].kind = req[s].kind /\ req'[s].code = req[s].code /\ req'[s].cmds = queue
LEMMA Serves ==
    ASSUME TypeOK, NEW s \in Slots, NEW pc \in {"stop", "bind"}, Step(s, Busied(s, pc))
    PROVE  Serving(s, pc)
<1>1. queue \subseteq Commands
  BY DEF TypeOK
<1> DEFINE r == Busied(s, pc)
<1>2. r \in Requests /\ r.pc = pc /\ r.kind = req[s].kind /\ r.code = req[s].code /\ r.cmds = queue
  BY <1>1, RequestTypes, Blanks DEF Busied, Requests
<1>3. Step(s, r)
  OBVIOUS
<1> HIDE DEF r
<1>4. Served(s) /\ req'[s] = r
  BY <1>2, <1>3, Steps
<1> QED BY <1>2, <1>4 DEF Serving

\* What a heartbeat writes that was not misled: a proof only if the row still has it, and
\* that one for the same address; and if it takes one away, the board has moved.
Wrote(s) ==
    /\ row' \in Rows /\ row'.here = row.here /\ row'.revoked = row.revoked /\ row'.code = row.code
    /\ ~Astray' /\ row'.att # 0 => row'.att = row.att /\ row'.ip = row.ip
    /\ ~Astray' /\ mode = "REAL" /\ ~Moved(s) /\ Sound => Sound' /\ row'.ip = row.ip
LEMMA Writes ==
    ASSUME TypeOK, NEW s \in Slots, row' = (IF row.here THEN Refreshed(s) ELSE row),
           mode' = mode, ~Astray' => ~Misled(s)
    PROVE  Wrote(s)
<1>0. row \in Rows /\ req[s].snap \in Rows /\ req[s].ip \in 0 .. MaxIp
  BY RequestTypes DEF TypeOK
<1>1. CASE ~row.here
  <2>1. ~Sound
    BY <1>1 DEF Sound, Verified
  <2> QED BY <1>0, <1>1, <2>1 DEF Wrote
<1>2. CASE row.here
  <2> DEFINE att == IF Keeps(s) THEN req[s].snap.att ELSE 0
             attip == IF Keeps(s) THEN req[s].snap.attip ELSE 0
  <2>1. att \in 0 .. MaxCode /\ attip \in 0 .. MaxIp
    BY <1>0, RowTypes, Constants
  <2>2. row' = [row EXCEPT !.ip = req[s].ip, !.online = TRUE, !.fresh = TRUE, !.att = att, !.attip = attip]
    BY <1>2 DEF Refreshed
  <2> HIDE DEF att, attip
  <2>3. /\ row' \in Rows /\ row'.here = row.here /\ row'.revoked = row.revoked /\ row'.code = row.code
        /\ row'.ip = req[s].ip /\ row'.att = att /\ row'.attip = attip
    BY <1>0, <2>1, <2>2 DEF Rows
  <2>4. ASSUME ~Astray'
        PROVE  row.ip = req[s].snap.ip /\ row.att = req[s].snap.att /\ (Verified(row) <=> Verified(req[s].snap))
    <3>1. ~Misled(s)
      BY <2>4
    <3>2. Verified(row) \in BOOLEAN /\ Verified(req[s].snap) \in BOOLEAN
      BY DEF Verified
    <3> QED BY <1>2, <3>1, <3>2 DEF Misled
  <2>5. ASSUME ~Astray', row'.att # 0
        PROVE  row'.att = row.att /\ row'.ip = row.ip
    <3>1. Keeps(s) /\ att = req[s].snap.att
      BY <2>3, <2>5 DEF att
    <3> QED BY <2>3, <2>4, <2>5, <3>1 DEF Keeps
  <2>6. ASSUME ~Astray', mode = "REAL", ~Moved(s), Sound
        PROVE  Sound' /\ row'.ip = row.ip
    <3>1. Verified(req[s].snap) /\ req[s].ip = req[s].snap.ip /\ row.att # 0 /\ ~row.revoked
      BY <2>4, <2>6 DEF Sound, Verified, Moved
    <3>2. att = req[s].snap.att /\ attip = req[s].snap.attip /\ req[s].snap.attip = req[s].snap.ip
      BY <3>1 DEF att, attip, Keeps, Verified
    <3> QED BY <1>2, <2>3, <2>4, <2>6, <3>1, <3>2 DEF Sound, Verified
  <2> QED BY <2>3, <2>5, <2>6 DEF Wrote
<1> QED BY <1>1, <1>2

LEMMA AwaitedServing ==
    ASSUME Awaited, NEW s \in Slots, NEW pc, Serving(s, pc), req[s].kind = "beat", Wrote(s),
           slip \subseteq slip', UNCHANGED <<call, board>>, call \in Slots \cup {Nobody}
    PROVE  Awaited'
<1>1. CASE call = s
  BY <1>1 DEF Awaited, Serving
<1>2. CASE call # s
  <2>1. call # Nobody => req'[call] = req[call]
    BY <1>2 DEF Serving, Served
  <2> QED BY <2>1 DEF Awaited, Wrote
<1> QED BY <1>1, <1>2

-----------------------------------------------------------------------------
(* The steps.                                                              *)
\* A claim that is refused uses the code up at most.
LEMMA ClaimRefusedStep == ASSUME IInv, NEW s \in Slots, ClaimRefused(s) PROVE IInv'
<1>0. /\ TypeOK /\ Whereabouts /\ Binds /\ Blank /\ Proven /\ Compared
      /\ Awaited /\ TokenAgrees /\ Stopped /\ call \in Slots \cup {Nobody}
  BY DEF IInv, TypeOK
<1>1. /\ At(s, "txn") /\ Reply(s, "error", {})
      /\ UNCHANGED <<mode, row, queue, rev, sweep, cable, bind, cam, engine, lock, spent, slip>>
  BY <1>0 DEF ClaimRefused, others, cameraVars
<1>2. Answered(s, {}) /\ board'.token \in {board.token, 0}
  BY <1>0, <1>1, Replies
<1>3. req[s].pc = "txn" /\ codes' \in [Codes -> {"none", "open", "used", "expired"}]
  BY <1>0, <1>1, <1>2 DEF ClaimRefused, TypeOK, At
<1>4. RowKept
  BY <1>0, <1>1, <1>2, <1>3, RowSame
<1>5. TypeOK'
  BY <1>0, <1>1, <1>2, <1>3, <1>4, Constants DEF TypeOK, Answered, Ended, Served
<1>6. Whereabouts'
  BY <1>0, <1>1, <1>2, <1>3, <1>4, WhereaboutsOn DEF Answered, Ended, Served, Ran
<1>7. Binds'
  BY <1>0, <1>1, <1>2, <1>3, <1>4 DEF Binds, Answered, Going, Ended, Served
<1>8. Awaited'
  BY <1>0, <1>1, <1>2, <1>3, <1>4, AwaitedAnswered
<1>9. TokenAgrees'
  BY <1>0, <1>1, <1>2, <1>3, <1>4, TokenOn
<1>10. Stopped'
  BY <1>0, <1>1, <1>2, <1>3, <1>4, StoppedOn, StoppingServed DEF Answered, Ended, Going
<1>11. Blank' /\ Proven' /\ Compared'
  BY <1>0, <1>1 DEF Blank, Proven, Compared
<1> QED BY <1>5, <1>6, <1>7, <1>8, <1>9, <1>10, <1>11 DEF IInv

\* A claim that is accepted replaces the row.  Nobody else is to have touched it: the
\* board waits for this claim, and the camera of the old row is stopped.
LEMMA ClaimCommitStep == ASSUME IInv, NEW s \in Slots, ClaimCommit(s) PROVE IInv'
<1>0. /\ TypeOK /\ Whereabouts /\ Binds /\ Blank /\ Proven /\ Compared
      /\ Awaited /\ TokenAgrees /\ Stopped /\ call \in Slots \cup {Nobody}
  BY DEF IInv, TypeOK
<1>1. /\ At(s, "txn") /\ row' = Issued(s)
      /\ codes' = [codes EXCEPT ![req[s].code] = "used"]
      /\ UNCHANGED <<mode, queue, rev, sweep, cable, cam, engine, lock, spent>>
  BY <1>0 DEF ClaimCommit, others, cameraVars
<1>2. req[s].pc = "txn" /\ req[s].kind = "claim"
  BY <1>0, <1>1 DEF At, Binds
<1>3. row' \in Rows /\ row'.here /\ ~row'.revoked /\ row'.code = req[s].code /\ row'.att = 0
  BY <1>0, <1>1, <1>2, RequestTypes, Blanks DEF Issued, NoRow, Rows
<1>4. slip' \subseteq {"answer", "reader"} /\ ~Astray' /\ (call # s => Unawaited')
  BY <1>0, <1>1, <1>2, <1>3 DEF ClaimCommit, Astray
<1>5. codes' \in [Codes -> {"none", "open", "used", "expired"}]
  BY <1>0, <1>1, <1>2, <1>3, <1>4 DEF TypeOK
<1>6. CASE mode = "DEMO"
  <2>1. Going(s, "bind") /\ UNCHANGED <<board, call, wire, ran>> /\ bind' = [bind EXCEPT ![s] = "check"]
    BY <1>0, <1>1, <1>2, <1>3, <1>4, <1>5, <1>6, Goes DEF ClaimCommit
  <2>2. TypeOK'
    BY <1>0, <1>1, <1>2, <1>3, <1>4, <1>5, <1>6, <2>1, Constants DEF TypeOK, Answered, Ended,
       Served, Binders, Going
  <2>3. Whereabouts'
    BY <1>0, <1>1, <1>2, <1>3, <1>4, <1>5, <1>6, <2>1, WhereaboutsOn DEF Going, Ended, Served
  <2>4. Binds'
    BY <1>0, <1>1, <1>2, <1>3, <1>4, <1>5, <1>6, <2>1 DEF Binds, Going, Served, Binders, TypeOK
  <2>5. Blank'
    BY <1>0, <1>1, <1>2, <1>3, <1>4, <1>5, <1>6, <2>1 DEF Blank
  <2>6. Proven'
    BY <1>0, <1>1, <1>2, <1>3, <1>4, <1>5, <1>6, <2>1, Constants DEF Proven
  <2>7. Compared'
    BY <1>0, <1>1, <1>2, <1>3, <1>4, <1>5, <1>6, <2>1 DEF Compared
  <2>8. Awaited'
    BY <1>0, <1>1, <1>2, <1>3, <1>4, <1>5, <1>6, <2>1 DEF Awaited, Going, Ended, Served
  <2>9. TokenAgrees'
    BY <1>0, <1>1, <1>2, <1>3, <1>4, <1>5, <1>6, <2>1, Constants DEF TokenAgrees, Awaited
  <2>10. Stopped'
    BY <1>0, <1>1, <1>2, <1>3, <1>4, <1>5, <1>6, <2>1 DEF Stopped, Backed, Stopping, Served
  <2> QED BY <2>2, <2>3, <2>4, <2>5, <2>6, <2>7, <2>8, <2>9, <2>10 DEF IInv
<1>7. CASE mode # "DEMO" /\ row.here
  <2>1. Going(s, "stop") /\ UNCHANGED <<board, call, wire, ran, bind>>
    BY <1>0, <1>1, <1>2, <1>3, <1>4, <1>5, <1>7, Goes DEF ClaimCommit
  <2>2. TypeOK'
    BY <1>0, <1>1, <1>2, <1>3, <1>4, <1>5, <1>7, <2>1, Constants DEF TypeOK, Answered, Ended,
       Served, Binders, Going
  <2>3. Whereabouts'
    BY <1>0, <1>1, <1>2, <1>3, <1>4, <1>5, <1>7, <2>1, WhereaboutsOn DEF Going, Ended, Served
  <2>4. Binds'
    BY <1>0, <1>1, <1>2, <1>3, <1>4, <1>5, <1>7, <2>1 DEF Binds, Answered, Going, Ended, Served
  <2>5. Blank'
    BY <1>0, <1>1, <1>2, <1>3, <1>4, <1>5, <1>7, <2>1 DEF Blank
  <2>6. Proven'
    BY <1>0, <1>1, <1>2, <1>3, <1>4, <1>5, <1>7, <2>1, Constants DEF Proven
  <2>7. Compared'
    BY <1>0, <1>1, <1>2, <1>3, <1>4, <1>5, <1>7, <2>1 DEF Compared
  <2>8. Awaited'
    BY <1>0, <1>1, <1>2, <1>3, <1>4, <1>5, <1>7, <2>1 DEF Awaited, Going, Ended, Served
  <2>9. TokenAgrees'
    BY <1>0, <1>1, <1>2, <1>3, <1>4, <1>5, <1>7, <2>1, Constants DEF TokenAgrees, Awaited
  <2>10. Stopped'
    BY <1>0, <1>1, <1>2, <1>3, <1>4, <1>5, <1>7, <2>1 DEF Stopped, Stopping, Going
  <2> QED BY <2>2, <2>3, <2>4, <2>5, <2>6, <2>7, <2>8, <2>9, <2>10 DEF IInv
<1>8. CASE mode # "DEMO" /\ ~row.here
  <2>1. Answered(s, {}) /\ bind' = bind
    BY <1>0, <1>1, <1>2, <1>3, <1>4, <1>5, <1>8, Replies DEF ClaimCommit
  <2>2. TypeOK'
    BY <1>0, <1>1, <1>2, <1>3, <1>4, <1>5, <1>8, <2>1, Constants DEF TypeOK, Answered, Ended,
       Served, Binders, Going
  <2>3. Whereabouts'
    BY <1>0, <1>1, <1>2, <1>3, <1>4, <1>5, <1>8, <2>1, WhereaboutsOn DEF Answered, Ended, Served,
       Ran
  <2>4. Binds'
    BY <1>0, <1>1, <1>2, <1>3, <1>4, <1>5, <1>8, <2>1 DEF Binds, Answered, Going, Ended, Served
  <2>5. Blank'
    BY <1>0, <1>1, <1>2, <1>3, <1>4, <1>5, <1>8, <2>1 DEF Blank
  <2>6. Proven'
    BY <1>0, <1>1, <1>2, <1>3, <1>4, <1>5, <1>8, <2>1, Constants DEF Proven
  <2>7. Compared'
    BY <1>0, <1>1, <1>2, <1>3, <1>4, <1>5, <1>8, <2>1 DEF Compared
  <2>8. Awaited'
    BY <1>0, <1>1, <1>2, <1>3, <1>4, <1>5, <1>8, <2>1, Constants DEF Awaited, Answered, Ended,
       Served
  <2>9. TokenAgrees'
    BY <1>0, <1>1, <1>2, <1>3, <1>4, <1>5, <1>8, <2>1, Constants DEF TokenAgrees, Awaited, Answered
  <2>10. Stopped'
    <3>1. mode = "REAL" => engine' = Off /\ lock' = Nobody
      BY <1>0, <1>1, <1>8 DEF Stopped
    <3> QED BY <1>1, <3>1 DEF Stopped
  <2> QED BY <2>2, <2>3, <2>4, <2>5, <2>6, <2>7, <2>8, <2>9, <2>10 DEF IInv
<1> QED BY <1>0, <1>1, <1>6, <1>7, <1>8

\* The camera of a board that was registered before is stopped.
LEMMA ClaimStopStep == ASSUME IInv, NEW s \in Slots, ClaimStop(s) PROVE IInv'
<1>0. /\ TypeOK /\ Whereabouts /\ Binds /\ Blank /\ Proven /\ Compared
      /\ Awaited /\ TokenAgrees /\ Stopped /\ call \in Slots \cup {Nobody}
  BY DEF IInv, TypeOK
<1>1. /\ At(s, "stop") /\ req[s].kind = "claim" /\ engine' = Off /\ lock = Nobody /\ Reply(s, "ok", {})
      /\ UNCHANGED <<mode, codes, row, queue, rev, sweep, cable, bind, cam, lock, spent, slip>>
  BY <1>0 DEF ClaimStop, others, storeVars, StopCamera
<1>2. Answered(s, {}) /\ req[s].pc = "stop"
  BY <1>0, <1>1, Replies DEF At
<1>3. RowKept
  BY <1>0, <1>1, <1>2, RowSame
<1>4. TypeOK'
  BY <1>0, <1>1, <1>2, <1>3, Constants, Blanks DEF TypeOK, Answered, Ended, Served
<1>5. Whereabouts'
  BY <1>0, <1>1, <1>2, <1>3, WhereaboutsOn DEF Answered, Ended, Served, Ran
<1>6. Binds'
  BY <1>0, <1>1, <1>2, <1>3 DEF Binds, Answered, Going, Ended, Served
<1>7. Awaited'
  BY <1>0, <1>1, <1>2, <1>3, AwaitedAnswered
<1>8. TokenAgrees'
  BY <1>0, <1>1, <1>2, <1>3, Constants DEF Answered, Awaited, TokenAgrees
<1>9. Stopped'
  BY <1>0, <1>1, <1>2, <1>3, StoppedOff
<1>10. Blank' /\ Proven' /\ Compared'
  BY <1>0, <1>1 DEF Blank, Proven, Compared
<1> QED BY <1>4, <1>5, <1>6, <1>7, <1>8, <1>9, <1>10 DEF IInv

\* A claim whose camera could not be started leaves no row.
LEMMA ClaimRollbackStep == ASSUME IInv, NEW s \in Slots, ClaimRollback(s) PROVE IInv'
<1>0. /\ TypeOK /\ Whereabouts /\ Binds /\ Blank /\ Proven /\ Compared
      /\ Awaited /\ TokenAgrees /\ Stopped /\ call \in Slots \cup {Nobody}
  BY DEF IInv, TypeOK
<1>1. /\ At(s, "rollback") /\ row' = NoRow /\ Reply(s, "error", {})
      /\ codes' = [codes EXCEPT ![req[s].code] = "open"]
      /\ UNCHANGED <<mode, queue, rev, sweep, cable, bind, cam, engine, lock, spent>>
  BY <1>0 DEF ClaimRollback, others, cameraVars
<1>2. Answered(s, {}) /\ req[s].pc = "rollback"
  BY <1>0, <1>1, Replies DEF At
<1>3. slip' = slip
  BY <1>0, <1>1, <1>2 DEF ClaimRollback
<1>4. codes' \in [Codes -> {"none", "open", "used", "expired"}]
  BY <1>0, <1>1, <1>2, <1>3 DEF TypeOK
<1>5. TypeOK'
  BY <1>0, <1>1, <1>2, <1>3, <1>4, Constants, Blanks DEF TypeOK, Answered, Ended, Served
<1>6. Whereabouts'
  BY <1>0, <1>1, <1>2, <1>3, <1>4, WhereaboutsOn DEF Answered, Ended, Served, Ran
<1>7. Binds'
  BY <1>0, <1>1, <1>2, <1>3, <1>4 DEF Binds, Answered, Going, Ended, Served
<1>8. Blank'
  BY <1>0, <1>1, <1>2, <1>3, <1>4, Blanks DEF Blank
<1>9. Proven'
  BY <1>0, <1>1, <1>2, <1>3, <1>4, Blanks DEF Proven
<1>10. Compared'
  BY <1>0, <1>1, <1>2, <1>3, <1>4, Blanks DEF Compared
<1>11. Awaited'
  BY <1>0, <1>1, <1>2, <1>3, <1>4, Blanks, AwaitedAnswered
<1>12. TokenAgrees'
  BY <1>0, <1>1, <1>2, <1>3, <1>4, Blanks DEF TokenAgrees
<1>13. Stopped'
  BY <1>0, <1>1, <1>2, <1>3, <1>4 DEF Binds, Stopped
<1> QED BY <1>5, <1>6, <1>7, <1>8, <1>9, <1>10, <1>11, <1>12, <1>13 DEF IInv

\* A heartbeat reads the row, or is denied.
LEMMA BeatReadStep == ASSUME IInv, NEW s \in Slots, BeatRead(s) PROVE IInv'
<1>0. /\ TypeOK /\ Whereabouts /\ Binds /\ Blank /\ Proven /\ Compared
      /\ Awaited /\ TokenAgrees /\ Stopped /\ call \in Slots \cup {Nobody}
  BY DEF IInv, TypeOK
<1>1. /\ At(s, "read") /\ Fetch
      /\ UNCHANGED <<mode, codes, queue, rev, sweep, cable, bind, cam, lock, spent, slip>>
  BY <1>0 DEF BeatRead, others, boardVars
<1>2. RowKept /\ engine' \in {engine, Off} /\ req[s].pc = "read"
  BY <1>0, <1>1, FetchKeeps DEF At
<1>3. CASE row.here /\ ~row.revoked /\ row.code = req[s].code
  <2>1. Going(s, "write") /\ UNCHANGED <<board, call, wire, ran>>
    <3> DEFINE r == [req[s] EXCEPT !.pc = "write", !.snap = row']
    <3>1. Step(s, r) /\ UNCHANGED <<board, call, wire, ran>>
      BY <1>0, <1>1, <1>2, <1>3 DEF BeatRead, boardVars
    <3>2. r \in Requests /\ r.pc = "write" /\ r.kind = req[s].kind /\ r.code = req[s].code /\ r.cmds = req[s].cmds
      BY <1>0, <1>1, <1>2, <1>3, RequestTypes DEF Requests, RowKept
    <3> HIDE DEF r
    <3>3. Served(s) /\ req'[s] = r
      BY <1>0, <1>1, <1>2, <1>3, <3>1, <3>2, Steps
    <3> QED BY <3>1, <3>2, <3>3 DEF Going
  <2>2. TypeOK'
    BY <1>0, <1>1, <1>2, <1>3, <2>1, Constants, Blanks DEF TypeOK, Answered, Ended, Served, Going,
       RowKept
  <2>3. Whereabouts'
    BY <1>0, <1>1, <1>2, <1>3, <2>1, WhereaboutsOn DEF Going, Ended, Served
  <2>4. Binds'
    BY <1>0, <1>1, <1>2, <1>3, <2>1 DEF Binds, Answered, Going, Ended, Served
  <2>5. Blank'
    BY <1>0, <1>1, <1>2, <1>3, <2>1, RowOn
  <2>6. Proven'
    BY <1>0, <1>1, <1>2, <1>3, <2>1, RowOn
  <2>7. Awaited'
    BY <1>0, <1>1, <1>2, <1>3, <2>1 DEF Awaited, Going, Served, RowKept, Same
  <2>8. TokenAgrees'
    BY <1>0, <1>1, <1>2, <1>3, <2>1, TokenOn
  <2>9. Stopped'
    BY <1>0, <1>1, <1>2, <1>3, <2>1, StoppedOn, StoppingServed DEF Answered, Ended, Going
  <2>10. Compared'
    BY <1>0, <1>1, <1>2, ComparedOn
  <2> QED BY <2>2, <2>3, <2>4, <2>5, <2>6, <2>7, <2>8, <2>9, <2>10 DEF IInv
<1>4. CASE ~(row.here /\ ~row.revoked /\ row.code = req[s].code)
  <2>1. Answered(s, {}) /\ board'.token \in {board.token, 0}
    BY <1>0, <1>1, <1>2, <1>4, Replies DEF BeatRead
  <2>2. TypeOK'
    BY <1>0, <1>1, <1>2, <1>4, <2>1, Constants, Blanks DEF TypeOK, Answered, Ended, Served, Going,
       RowKept
  <2>3. Whereabouts'
    BY <1>0, <1>1, <1>2, <1>4, <2>1, WhereaboutsOn DEF Answered, Ended, Served, Ran
  <2>4. Binds'
    BY <1>0, <1>1, <1>2, <1>4, <2>1 DEF Binds, Answered, Going, Ended, Served
  <2>5. Blank'
    BY <1>0, <1>1, <1>2, <1>4, <2>1, RowOn
  <2>6. Proven'
    BY <1>0, <1>1, <1>2, <1>4, <2>1, RowOn
  <2>7. Awaited'
    BY <1>0, <1>1, <1>2, <1>4, <2>1, AwaitedAnswered
  <2>8. TokenAgrees'
    BY <1>0, <1>1, <1>2, <1>4, <2>1, TokenOn
  <2>9. Stopped'
    BY <1>0, <1>1, <1>2, <1>4, <2>1, StoppedOn, StoppingServed DEF Answered, Ended, Going
  <2>10. Compared'
    BY <1>0, <1>1, <1>2, ComparedOn
  <2> QED BY <2>2, <2>3, <2>4, <2>5, <2>6, <2>7, <2>8, <2>9, <2>10 DEF IInv
<1> QED BY <1>0, <1>1, <1>3, <1>4

\* A heartbeat writes the row back and takes the commands.  If it takes the proof of
\* a running camera away, the board has moved, and the camera is stopped.
LEMMA BeatWriteStep == ASSUME IInv, NEW s \in Slots, BeatWrite(s) PROVE IInv'
<1>0. /\ TypeOK /\ Whereabouts /\ Binds /\ Blank /\ Proven /\ Compared
      /\ Awaited /\ TokenAgrees /\ Stopped /\ call \in Slots \cup {Nobody}
  BY DEF IInv, TypeOK
<1>1. /\ At(s, "write")
      /\ queue' = {}
      /\ UNCHANGED <<mode, codes, rev, sweep, cable, cam, engine, lock, spent>>
  BY <1>0 DEF BeatWrite, others, boardVars, cameraVars, Taken
<1>2. req[s].pc = "write" /\ req[s].kind = "beat"
  BY <1>0, <1>1 DEF At, Binds
<1>3. slip' \subseteq {"answer", "reader"} /\ slip \subseteq slip' /\ (~Astray' => ~Astray /\ ~Misled(s))
  BY <1>0, <1>1, <1>2 DEF BeatWrite, TypeOK
<1>4. Wrote(s)
  BY <1>0, <1>1, <1>2, <1>3, Writes DEF BeatWrite
<1>5. \/ mode = "REAL" /\ Moved(s) /\ Step(s, Busied(s, "stop")) /\ UNCHANGED <<board, call, wire, ran, bind>>
      \/ Rebinds(s) /\ Step(s, Busied(s, "bind")) /\ UNCHANGED <<board, call, wire, ran>> /\ bind' = [bind EXCEPT ![s] = "check"]
      \/ ~(mode = "REAL" /\ Moved(s)) /\ Reply(s, "ok", queue) /\ bind' = bind
  BY DEF BeatWrite, Busied, boardVars
<1>6. CASE mode = "REAL" /\ Moved(s) /\ Step(s, Busied(s, "stop")) /\ UNCHANGED <<board, call, wire, ran, bind>>
  <2>1. Serving(s, "stop")
    BY <1>0, <1>1, <1>2, <1>3, <1>4, <1>5, <1>6, Serves
  <2>2. TypeOK'
    BY <1>0, <1>1, <1>2, <1>3, <1>4, <1>5, <1>6, <2>1, Constants DEF TypeOK, Answered, Ended,
       Served, Serving, Wrote, Binders
  <2>3. Whereabouts'
    BY <1>0, <1>1, <1>2, <1>3, <1>4, <1>5, <1>6, <2>1, WhereaboutsTaken DEF Serving
  <2>4. Binds'
    BY <1>0, <1>1, <1>2, <1>3, <1>4, <1>5, <1>6, <2>1 DEF Binds, Serving, Served
  <2>5. Blank'
    BY <1>0, <1>1, <1>2, <1>3, <1>4, <1>5, <1>6, <2>1 DEF Blank, Wrote
  <2>6. Proven'
    BY <1>0, <1>1, <1>2, <1>3, <1>4, <1>5, <1>6, <2>1 DEF Proven, Wrote
  <2>7. Compared'
    BY <1>0, <1>1, <1>2, <1>3, <1>4, <1>5, <1>6, <2>1 DEF Compared, Wrote
  <2>8. Awaited'
    BY <1>0, <1>1, <1>2, <1>3, <1>4, <1>5, <1>6, <2>1, AwaitedServing
  <2>9. TokenAgrees'
    BY <1>0, <1>1, <1>2, <1>3, <1>4, <1>5, <1>6, <2>1 DEF TokenAgrees, Wrote
  <2>10. Stopped'
    <3>1. Stopping'
      BY <1>2, <2>1 DEF Stopping, Serving
    <3>2. ~row.here => engine = Off /\ lock = Nobody
      BY <1>0, <1>6 DEF Stopped
    <3> QED BY <1>0, <1>1, <1>4, <3>1, <3>2 DEF Stopped, Wrote
  <2> QED BY <2>2, <2>3, <2>4, <2>5, <2>6, <2>7, <2>8, <2>9, <2>10 DEF IInv
<1>7. CASE Rebinds(s) /\ Step(s, Busied(s, "bind")) /\ UNCHANGED <<board, call, wire, ran>> /\ bind' = [bind EXCEPT ![s] = "check"]
  <2>1. Serving(s, "bind")
    BY <1>0, <1>1, <1>2, <1>3, <1>4, <1>5, <1>7, Serves
  <2>2. mode = "REAL" => ~Moved(s)
    BY <1>0, <1>1, <1>2, <1>3, <1>4, <1>5, <1>7, <2>1 DEF Rebinds, Keeps, Moved
  <2>3. TypeOK'
    BY <1>0, <1>1, <1>2, <1>3, <1>4, <1>5, <1>7, <2>1, <2>2, Constants DEF TypeOK, Answered,
       Ended, Served, Serving, Wrote, Binders
  <2>4. Whereabouts'
    BY <1>0, <1>1, <1>2, <1>3, <1>4, <1>5, <1>7, <2>1, <2>2, WhereaboutsTaken DEF Serving
  <2>5. Binds'
    BY <1>0, <1>1, <1>2, <1>3, <1>4, <1>5, <1>7, <2>1, <2>2 DEF Binds, Serving, Served, Binders,
       TypeOK
  <2>6. Blank'
    BY <1>0, <1>1, <1>2, <1>3, <1>4, <1>5, <1>7, <2>1, <2>2 DEF Blank, Wrote
  <2>7. Proven'
    BY <1>0, <1>1, <1>2, <1>3, <1>4, <1>5, <1>7, <2>1, <2>2 DEF Proven, Wrote
  <2>8. Compared'
    BY <1>0, <1>1, <1>2, <1>3, <1>4, <1>5, <1>7, <2>1, <2>2 DEF Compared, Wrote
  <2>9. Awaited'
    BY <1>0, <1>1, <1>2, <1>3, <1>4, <1>5, <1>7, <2>1, <2>2, AwaitedServing
  <2>10. TokenAgrees'
    BY <1>0, <1>1, <1>2, <1>3, <1>4, <1>5, <1>7, <2>1, <2>2 DEF TokenAgrees, Wrote
  <2>11. Stopped'
    <3>1. Stopping => Stopping'
      BY <1>0, <1>1, <1>2, <1>3, <1>4, <1>5, <1>7, <2>1, <2>2, StoppingServed DEF Serving
    <3> QED BY <1>0, <1>1, <1>3, <1>4, <1>7, <2>2, <3>1, StoppedThen DEF Wrote
  <2> QED BY <2>3, <2>4, <2>5, <2>6, <2>7, <2>8, <2>9, <2>10, <2>11 DEF IInv
<1>8. CASE ~(mode = "REAL" /\ Moved(s)) /\ Reply(s, "ok", queue) /\ bind' = bind
  <2>1. Answered(s, queue)
    BY <1>0, <1>1, <1>2, <1>3, <1>4, <1>5, <1>8, Replies DEF TypeOK
  <2>2. board'.token \in {board.token, 0}
    BY <1>0, <1>1, <1>2, <1>3, <1>4, <1>5, <1>8, <2>1 DEF Answered
  <2>3. TypeOK'
    BY <1>0, <1>1, <1>2, <1>3, <1>4, <1>5, <1>8, <2>1, <2>2, Constants DEF TypeOK, Answered,
       Ended, Served, Serving, Wrote, Binders
  <2>4. Whereabouts'
    BY <1>0, <1>1, <1>2, <1>3, <1>4, <1>5, <1>8, <2>1, <2>2, WhereaboutsEmptied
  <2>5. Binds'
    BY <1>0, <1>1, <1>2, <1>3, <1>4, <1>5, <1>8, <2>1, <2>2 DEF Binds, Answered, Going, Ended,
       Served
  <2>6. Blank'
    BY <1>0, <1>1, <1>2, <1>3, <1>4, <1>5, <1>8, <2>1, <2>2 DEF Blank, Wrote
  <2>7. Proven'
    BY <1>0, <1>1, <1>2, <1>3, <1>4, <1>5, <1>8, <2>1, <2>2 DEF Proven, Wrote
  <2>8. Compared'
    BY <1>0, <1>1, <1>2, <1>3, <1>4, <1>5, <1>8, <2>1, <2>2 DEF Compared, Wrote
  <2>9. Awaited'
    BY <1>0, <1>1, <1>2, <1>3, <1>4, <1>5, <1>8, <2>1, <2>2, Constants DEF Awaited, Answered,
       Ended, Served, Wrote
  <2>10. TokenAgrees'
    BY <1>0, <1>1, <1>2, <1>3, <1>4, <1>5, <1>8, <2>1, <2>2 DEF TokenAgrees, Wrote
  <2>11. Stopped'
    <3>1. Stopping => Stopping'
      BY <1>0, <1>1, <1>2, <1>3, <1>4, <1>5, <1>8, <2>1, <2>2, StoppingServed DEF Answered, Ended
    <3> QED BY <1>0, <1>1, <1>3, <1>4, <1>8, <2>2, <3>1, StoppedThen DEF Wrote
  <2> QED BY <2>3, <2>4, <2>5, <2>6, <2>7, <2>8, <2>9, <2>10, <2>11 DEF IInv
<1> QED BY <1>5, <1>6, <1>7, <1>8

\* The camera of a board that has moved is stopped.
LEMMA BeatStopStep == ASSUME IInv, NEW s \in Slots, BeatStop(s) PROVE IInv'
<1>0. /\ TypeOK /\ Whereabouts /\ Binds /\ Blank /\ Proven /\ Compared
      /\ Awaited /\ TokenAgrees /\ Stopped /\ call \in Slots \cup {Nobody}
  BY DEF IInv, TypeOK
<1>1. /\ At(s, "stop") /\ req[s].kind = "beat" /\ engine' = Off /\ lock = Nobody /\ Reply(s, "ok", req[s].cmds)
      /\ UNCHANGED <<mode, codes, row, queue, rev, sweep, cable, bind, cam, lock, spent, slip>>
  BY <1>0 DEF BeatStop, others, storeVars, StopCamera
<1>2. Answered(s, req[s].cmds) /\ req[s].pc = "stop"
  BY <1>0, <1>1, RequestTypes, Replies DEF At
<1>3. RowKept
  BY <1>0, <1>1, <1>2, RowSame
<1>4. TypeOK'
  BY <1>0, <1>1, <1>2, <1>3, Constants, Blanks DEF TypeOK, Answered, Ended, Served
<1>5. Whereabouts'
  BY <1>0, <1>1, <1>2, <1>3, WhereaboutsAnswered
<1>6. Binds'
  BY <1>0, <1>1, <1>2, <1>3 DEF Binds, Answered, Going, Ended, Served
<1>7. Awaited'
  BY <1>0, <1>1, <1>2, <1>3, AwaitedAnswered
<1>8. TokenAgrees'
  BY <1>0, <1>1, <1>2, <1>3 DEF Answered, TokenAgrees
<1>9. Stopped'
  BY <1>0, <1>1, <1>2, <1>3, StoppedOff
<1>10. Blank' /\ Proven' /\ Compared'
  BY <1>0, <1>1 DEF Blank, Proven, Compared
<1> QED BY <1>4, <1>5, <1>6, <1>7, <1>8, <1>9, <1>10 DEF IInv

\* A handler is through with the camera.
LEMMA BindEndsStep == ASSUME IInv, NEW s \in Slots, BindEnds(s) PROVE IInv'
<1>0. /\ TypeOK /\ Whereabouts /\ Binds /\ Blank /\ Proven /\ Compared
      /\ Awaited /\ TokenAgrees /\ Stopped /\ call \in Slots \cup {Nobody}
  BY DEF IInv, TypeOK
<1>1. /\ bind[s] \in {"done", "failed"}
      /\ bind' = [bind EXCEPT ![s] = "no"]
      /\ UNCHANGED <<mode, codes, row, queue, rev, sweep, cable, cam, engine, lock, spent, slip>>
  BY <1>0 DEF BindEnds, others, storeVars, cameraVars, Bind
<1>2. req[s].pc = "bind" /\ bind'[s] = "no" /\ \A t \in Slots \ {s} : bind'[t] = bind[t]
  BY <1>0, <1>1 DEF Binds, Binders, TypeOK
<1>3. RowKept
  BY <1>0, <1>1, <1>2, RowSame
<1>4. CASE req[s].kind = "claim" /\ bind[s] = "failed"
  <2>1. Going(s, "rollback") /\ UNCHANGED <<board, call, wire, ran>>
    BY <1>0, <1>1, <1>2, <1>3, <1>4, Goes DEF BindEnds
  <2>2. TypeOK'
    BY <1>0, <1>1, <1>2, <1>3, <1>4, <2>1, Constants DEF TypeOK, Answered, Ended, Served, Going,
       Binders
  <2>3. Whereabouts'
    BY <1>0, <1>1, <1>2, <1>3, <1>4, <2>1, WhereaboutsOn DEF Going, Ended, Served
  <2>4. Binds'
    BY <1>0, <1>1, <1>2, <1>3, <1>4, <2>1 DEF Binds, Answered, Going, Ended, Served
  <2>5. Awaited'
    BY <1>0, <1>1, <1>2, <1>3, <1>4, <2>1, AwaitedGoing
  <2>6. TokenAgrees'
    BY <1>0, <1>1, <1>2, <1>3, <1>4, <2>1, TokenOn
  <2>7. Stopped'
    BY <1>0, <1>1, <1>2, <1>3, <1>4, <2>1, StoppedOn, StoppingServed DEF Answered, Ended, Going
  <2>8. Blank' /\ Proven' /\ Compared'
    BY <1>0, <1>1 DEF Blank, Proven, Compared
  <2> QED BY <2>2, <2>3, <2>4, <2>5, <2>6, <2>7, <2>8 DEF IInv
<1>5. CASE ~(req[s].kind = "claim" /\ bind[s] = "failed")
  <2>1. Answered(s, req[s].cmds)
    BY <1>0, <1>1, <1>2, <1>3, <1>5, RequestTypes, Replies DEF BindEnds
  <2>2. TypeOK'
    BY <1>0, <1>1, <1>2, <1>3, <1>5, <2>1, Constants DEF TypeOK, Answered, Ended, Served, Going,
       Binders
  <2>3. Whereabouts'
    BY <1>0, <1>1, <1>2, <1>3, <1>5, <2>1, WhereaboutsAnswered
  <2>4. Binds'
    BY <1>0, <1>1, <1>2, <1>3, <1>5, <2>1 DEF Binds, Answered, Going, Ended, Served
  <2>5. Awaited'
    BY <1>0, <1>1, <1>2, <1>3, <1>5, <2>1, AwaitedAnswered
  <2>6. TokenAgrees'
    BY <1>0, <1>1, <1>2, <1>3, <1>5, <2>1, Constants DEF Answered, Awaited, TokenAgrees
  <2>7. Stopped'
    BY <1>0, <1>1, <1>2, <1>3, <1>5, <2>1, StoppedOn, StoppingServed DEF Answered, Ended, Going
  <2>8. Blank' /\ Proven' /\ Compared'
    BY <1>0, <1>1 DEF Blank, Proven, Compared
  <2> QED BY <2>2, <2>3, <2>4, <2>5, <2>6, <2>7, <2>8 DEF IInv
<1> QED BY <1>0, <1>1, <1>4, <1>5

\* A binding reads the identity and saves the address.
LEMMA BindCheckStep == ASSUME IInv, NEW w \in Binders, BindCheck(w) PROVE IInv'
<1>0. /\ TypeOK /\ Whereabouts /\ Binds /\ Blank /\ Proven /\ Compared
      /\ Awaited /\ TokenAgrees /\ Stopped /\ call \in Slots \cup {Nobody}
  BY DEF IInv, TypeOK
<1>1. /\ bind[w] = "check"
      /\ UNCHANGED <<mode, codes, row, queue, req, rev, sweep, cable, engine, lock, board, call,
                     wire, spent, ran, slip>>
  BY <1>0 DEF BindCheck, others, boardVars, storeVars
<1>2. cam' \in 0 .. MaxIp
  BY <1>0, <1>1, RowTypes DEF BindCheck, TypeOK
<1>3. \E to \in {"look", "replace", "failed"} : bind' = [bind EXCEPT ![w] = to]
  BY <1>0, <1>1, <1>2 DEF BindCheck, Bind
<1>4. RowKept
  BY <1>0, <1>1, <1>2, <1>3, RowSame
<1>5. TypeOK'
  BY <1>0, <1>1, <1>2, <1>3, <1>4 DEF TypeOK
<1>6. Binds'
  BY <1>0, <1>1, <1>2, <1>3, <1>4 DEF Binds, Binders, TypeOK
<1>7. Whereabouts' /\ Blank' /\ Proven' /\ Compared' /\ Awaited' /\ TokenAgrees'
  BY <1>0, <1>1 DEF Whereabouts, Blank, Proven, Compared, Awaited, TokenAgrees
<1>8. Stopped'
  <2>1. CASE cam' = cam
    BY <1>0, <1>1, <1>4, <2>1, StoppedOn, StoppingSame
  <2>2. CASE mode = "REAL" /\ cam' # cam
    <3>1. Sound /\ cam' = row.ip
      BY <2>2 DEF BindCheck, Allowed, Sound
    <3>2. Sound' /\ Opening'
      BY <1>1, <3>1 DEF Sound, Opening, Verified
    <3>3. Backed => Backed'
      BY <1>1, <3>2 DEF Backed
    <3>4. Stopping => Stopping'
      BY <1>1, StoppingSame
    <3> QED BY <1>0, <1>1, <3>2, <3>3, <3>4 DEF Stopped
  <2>3. CASE mode # "REAL"
    BY <1>1, <2>3 DEF Stopped
  <2> QED BY <2>1, <2>2, <2>3
<1> QED BY <1>5, <1>6, <1>7, <1>8 DEF IInv

\* It stops the reader of the old address.
LEMMA BindReplaceStep == ASSUME IInv, NEW w \in Binders, BindReplace(w) PROVE IInv'
<1>0. /\ TypeOK /\ Whereabouts /\ Binds /\ Blank /\ Proven /\ Compared
      /\ Awaited /\ TokenAgrees /\ Stopped /\ call \in Slots \cup {Nobody}
  BY DEF IInv, TypeOK
<1>1. /\ bind[w] = "replace" /\ engine' = Off /\ lock = Nobody
      /\ bind' = [bind EXCEPT ![w] = "look"]
      /\ UNCHANGED <<mode, codes, row, queue, req, rev, sweep, cable, cam, lock, board, call,
                     wire, spent, ran, slip>>
  BY <1>0 DEF BindReplace, others, boardVars, storeVars, Bind, StopCamera
<1>2. RowKept
  BY <1>0, <1>1, RowSame
<1>3. TypeOK'
  BY <1>0, <1>1, <1>2, Blanks DEF TypeOK
<1>4. Binds'
  BY <1>0, <1>1, <1>2 DEF Binds, Binders, TypeOK
<1>5. Stopped'
  BY <1>0, <1>1, <1>2, StoppedOff
<1>6. Whereabouts' /\ Blank' /\ Proven' /\ Compared' /\ Awaited' /\ TokenAgrees'
  BY <1>0, <1>1 DEF Whereabouts, Blank, Proven, Compared, Awaited, TokenAgrees
<1> QED BY <1>3, <1>4, <1>5, <1>6 DEF IInv

\* It takes the lock and reads the identity again.
LEMMA BindLookStep == ASSUME IInv, NEW w \in Binders, BindLook(w) PROVE IInv'
<1>0. /\ TypeOK /\ Whereabouts /\ Binds /\ Blank /\ Proven /\ Compared
      /\ Awaited /\ TokenAgrees /\ Stopped /\ call \in Slots \cup {Nobody}
  BY DEF IInv, TypeOK
<1>1. /\ bind[w] = "look"
      /\ UNCHANGED <<mode, codes, row, queue, req, rev, sweep, cable, cam, engine, board, call,
                     wire, spent, ran, slip>>
  BY <1>0 DEF BindLook, others, boardVars, storeVars
<1>2. lock' \in Binders \cup {Nobody}
  BY <1>0, <1>1 DEF BindLook, TypeOK
<1>3. \E to \in {"open", "done", "failed"} : bind' = [bind EXCEPT ![w] = to]
  BY <1>0, <1>1, <1>2 DEF BindLook, Bind
<1>4. RowKept
  BY <1>0, <1>1, <1>2, <1>3, RowSame
<1>5. TypeOK'
  BY <1>0, <1>1, <1>2, <1>3, <1>4 DEF TypeOK
<1>6. Binds'
  BY <1>0, <1>1, <1>2, <1>3, <1>4 DEF Binds, Binders, TypeOK
<1>7. Whereabouts' /\ Blank' /\ Proven' /\ Compared' /\ Awaited' /\ TokenAgrees'
  BY <1>0, <1>1 DEF Whereabouts, Blank, Proven, Compared, Awaited, TokenAgrees
<1>8. Stopped'
  <2>1. CASE lock' = lock
    BY <1>0, <1>1, <1>4, <2>1, StoppedOn, StoppingSame
  <2>2. CASE mode = "REAL" /\ lock' # lock
    <3>1. Sound /\ cam = row.ip
      BY <2>2 DEF BindLook, Allowed, Sound
    <3>2. row.here /\ Sound' /\ Opening'
      BY <1>1, <3>1 DEF Sound, Opening, Verified
    <3>3. Backed => Backed'
      BY <1>1, <3>2 DEF Backed
    <3>4. Stopping => Stopping'
      BY <1>1, StoppingSame
    <3> QED BY <1>0, <1>1, <3>2, <3>3, <3>4 DEF Stopped
  <2>3. CASE mode # "REAL"
    BY <1>1, <2>3 DEF Stopped
  <2> QED BY <2>1, <2>2, <2>3
<1> QED BY <1>5, <1>6, <1>7, <1>8 DEF IInv

\* It reads the credential and opens the source: the new reader has a proof.
LEMMA BindOpenStep == ASSUME IInv, NEW w \in Binders, BindOpen(w) PROVE IInv'
<1>0. /\ TypeOK /\ Whereabouts /\ Binds /\ Blank /\ Proven /\ Compared
      /\ Awaited /\ TokenAgrees /\ Stopped /\ call \in Slots \cup {Nobody}
  BY DEF IInv, TypeOK
<1>1. /\ bind[w] = "open" /\ lock' = Nobody
      /\ UNCHANGED <<mode, codes, row, queue, req, rev, sweep, cable, cam, board, call, wire,
                     spent, ran, slip>>
  BY <1>0 DEF BindOpen, others, boardVars, storeVars
<1>2. \E to \in {"done", "failed"} : bind' = [bind EXCEPT ![w] = to]
  BY <1>0, <1>1 DEF BindOpen, Bind
<1>3. \/ engine' = engine
      \/ Credential(row) /\ engine' = [ip |-> cam, code |-> row.code]
  BY <1>0, <1>1, <1>2 DEF BindOpen
<1>4. engine' \in Readers
  BY <1>0, <1>1, <1>2, <1>3, RowTypes DEF TypeOK, Readers
<1>5. RowKept
  BY <1>0, <1>1, <1>2, <1>3, <1>4, RowSame
<1>6. TypeOK'
  BY <1>0, <1>1, <1>2, <1>3, <1>4, <1>5 DEF TypeOK
<1>7. Binds'
  BY <1>0, <1>1, <1>2, <1>3, <1>4, <1>5 DEF Binds, Binders, TypeOK
<1>8. Stopped'
  <2>0. lock = w /\ lock # Nobody
    BY FirmwareConstants DEF BindOpen, Binders
  <2>1. CASE engine' = engine
    BY <1>0, <1>1, <1>2, <1>3, <1>4, <1>5, <2>1, StoppedOn, StoppingSame
  <2>2. CASE Credential(row) /\ engine' = [ip |-> cam, code |-> row.code]
    <3>1. mode = "REAL" => row.here /\ (~Astray => Opening \/ Stopping)
      BY <1>0, <2>0, <2>2 DEF Credential, Stopped
    <3>2. Opening => Backed'
      BY <1>1, <2>2 DEF Opening, Backed, Sound, Verified
    <3>3. Stopping => Stopping'
      BY <1>1, StoppingSame
    <3> QED BY <1>1, <3>1, <3>2, <3>3 DEF Stopped
  <2> QED BY <1>0, <1>1, <1>2, <1>3, <1>4, <1>5, <2>1, <2>2
<1>9. Whereabouts' /\ Blank' /\ Proven' /\ Compared' /\ Awaited' /\ TokenAgrees'
  BY <1>0, <1>1 DEF Whereabouts, Blank, Proven, Compared, Awaited, TokenAgrees
<1> QED BY <1>6, <1>7, <1>8, <1>9 DEF IInv

\* A revocation reads the public record; the command is used up.
LEMMA RevokeReadStep == ASSUME IInv, RevokeRead PROVE IInv'
<1>0. /\ TypeOK /\ Whereabouts /\ Binds /\ Blank /\ Proven /\ Compared
      /\ Awaited /\ TokenAgrees /\ Stopped /\ call \in Slots \cup {Nobody}
  BY DEF IInv, TypeOK
<1>1. /\ rev.pc = "idle" /\ Spend("revoke") /\ Fetch
      /\ UNCHANGED <<mode, codes, queue, req, sweep, cable, bind, cam, lock, board, call, wire,
                     ran, slip>>
  BY <1>0 DEF RevokeRead, boardVars
<1>2. RowKept /\ engine' \in {engine, Off}
  BY <1>0, <1>1, FetchKeeps
<1>3. rev' \in [pc : {"idle", "write", "stop"}, seen : BOOLEAN]
  BY <1>0, <1>1, <1>2 DEF RevokeRead, Verified
<1>4. spent \subseteq spent' /\ spent' \subseteq Incidents
  BY <1>0, <1>1, <1>2, <1>3, Spends
<1>5. TypeOK'
  BY <1>0, <1>1, <1>2, <1>3, <1>4, Blanks DEF TypeOK, RowKept
<1>6. Whereabouts'
  BY <1>0, <1>1, <1>2, <1>3, <1>4, WhereaboutsOn
<1>7. Blank'
  BY <1>0, <1>1, <1>2, <1>3, <1>4, RowOn
<1>8. Proven'
  BY <1>0, <1>1, <1>2, <1>3, <1>4, RowOn
<1>9. Awaited'
  BY <1>0, <1>1, <1>2, <1>3, <1>4, AwaitedOn
<1>10. TokenAgrees'
  BY <1>0, <1>1, <1>2, <1>3, <1>4, TokenOn
<1>11. Stopped'
  BY <1>0, <1>1, <1>2, <1>3, <1>4, StoppedOn DEF Stopping
<1>12. Binds' /\ Compared'
  BY <1>0, <1>1, <1>2, ComparedOn DEF Binds
<1> QED BY <1>5, <1>6, <1>7, <1>8, <1>9, <1>10, <1>11, <1>12 DEF IInv

\* A revocation takes the proof away, and stops the camera if it saw one.
LEMMA RevokeWriteStep == ASSUME IInv, RevokeWrite PROVE IInv'
<1>0. /\ TypeOK /\ Whereabouts /\ Binds /\ Blank /\ Proven /\ Compared
      /\ Awaited /\ TokenAgrees /\ Stopped /\ call \in Slots \cup {Nobody}
  BY DEF IInv, TypeOK
<1>1. /\ rev.pc = "write" /\ rev' = [rev EXCEPT !.pc = "stop"]
      /\ UNCHANGED <<mode, codes, queue, req, sweep, cable, bind, cam, engine, lock, board, call,
                     wire, spent, ran>>
  BY <1>0 DEF RevokeWrite, others, boardVars, cameraVars
<1>2. \/ ~row.here /\ row' = row
      \/ /\ row.here /\ row' \in Rows /\ row'.here /\ row'.revoked /\ row'.code = 0 /\ row'.att = 0
  BY <1>0, <1>1, Constants DEF RevokeWrite, TypeOK, Rows
<1>3. slip' \subseteq {"answer", "reader"} /\ slip \subseteq slip' /\ (~Astray' => ~Astray /\ (rev.seen \/ row.att = 0))
  BY <1>0, <1>1, <1>2 DEF RevokeWrite, TypeOK
<1>4. rev' \in [pc : {"idle", "write", "stop"}, seen : BOOLEAN] /\ rev'.pc = "stop" /\ rev'.seen = rev.seen
  BY <1>0, <1>1, <1>2, <1>3 DEF TypeOK
<1>5. TypeOK'
  BY <1>0, <1>1, <1>2, <1>3, <1>4 DEF TypeOK
<1>6. Blank'
  BY <1>0, <1>1, <1>2, <1>3, <1>4 DEF Blank
<1>7. Proven'
  BY <1>0, <1>1, <1>2, <1>3, <1>4 DEF Proven
<1>8. Compared'
  BY <1>0, <1>1, <1>2, <1>3, <1>4 DEF Compared
<1>9. Awaited'
  BY <1>0, <1>1, <1>2, <1>3, <1>4 DEF Awaited
<1>10. TokenAgrees'
  BY <1>0, <1>1, <1>2, <1>3, <1>4 DEF TokenAgrees
<1>11. Stopped'
  <2>1. CASE rev.seen
    <3>1. Stopping'
      BY <1>4, <2>1 DEF Stopping
    <3> QED BY <1>0, <1>1, <1>2, <3>1 DEF Stopped
  <2>2. CASE ~rev.seen
    <3>1. ~Astray' => ~Sound
      BY <1>3, <2>2 DEF Sound, Verified
    <3>2. Stopping => Stopping'
      BY <1>1, <1>4, <2>2 DEF Stopping
    <3>3. row.here => row'.here
      BY <1>2
    <3> QED BY <1>0, <1>1, <1>3, <3>1, <3>2, <3>3, StoppedThen
  <2> QED BY <2>1, <2>2
<1>12. Whereabouts' /\ Binds'
  BY <1>0, <1>1 DEF Whereabouts, Binds
<1> QED BY <1>5, <1>6, <1>7, <1>8, <1>9, <1>10, <1>11, <1>12 DEF IInv

\* It has stopped the camera, if it saw one.
LEMMA RevokeStopStep == ASSUME IInv, RevokeStop PROVE IInv'
<1>0. /\ TypeOK /\ Whereabouts /\ Binds /\ Blank /\ Proven /\ Compared
      /\ Awaited /\ TokenAgrees /\ Stopped /\ call \in Slots \cup {Nobody}
  BY DEF IInv, TypeOK
<1>1. /\ rev.pc = "stop" /\ rev' = [pc |-> "idle", seen |-> FALSE]
      /\ IF rev.seen THEN engine' = Off /\ lock = Nobody ELSE engine' = engine
      /\ UNCHANGED <<mode, codes, row, queue, req, sweep, cable, bind, cam, lock, board, call,
                     wire, spent, ran, slip>>
  BY <1>0 DEF RevokeStop, others, boardVars, storeVars, StopCamera
<1>2. RowKept
  BY <1>0, <1>1, RowSame
<1>3. engine' \in {engine, Off}
  BY <1>0, <1>1, <1>2
<1>4. TypeOK'
  BY <1>0, <1>1, <1>2, <1>3, Blanks DEF TypeOK
<1>5. Stopped'
  <2>1. CASE rev.seen
    BY <1>0, <1>1, <1>2, <1>3, <2>1, StoppedOff
  <2>2. CASE ~rev.seen
    <3>1. Stopping => Stopping'
      BY <1>0, <1>1, <1>2, <1>3, <2>2 DEF Stopping
    <3> QED BY <1>0, <1>1, <1>2, <1>3, <3>1, StoppedOn
  <2> QED BY <2>1, <2>2
<1>6. Whereabouts' /\ Binds' /\ Blank' /\ Proven' /\ Compared' /\ Awaited' /\ TokenAgrees'
  BY <1>0, <1>1 DEF Whereabouts, Binds, Blank, Proven, Compared, Awaited, TokenAgrees
<1> QED BY <1>4, <1>5, <1>6 DEF IInv

\* A command is issued.
LEMMA QueueCommandStep == ASSUME IInv, NEW c \in Commands, QueueCommand(c) PROVE IInv'
<1>0. /\ TypeOK /\ Whereabouts /\ Binds /\ Blank /\ Proven /\ Compared
      /\ Awaited /\ TokenAgrees /\ Stopped /\ call \in Slots \cup {Nobody}
  BY DEF IInv, TypeOK
<1>1. /\ Spend(c) /\ queue' = queue \cup {c}
      /\ UNCHANGED <<mode, codes, row, req, rev, sweep, cable, bind, cam, engine, lock, board,
                     call, wire, ran, slip>>
  BY <1>0 DEF QueueCommand, boardVars, cameraVars
<1>2. c \notin spent /\ c \in spent' /\ spent \subseteq spent' /\ spent' \subseteq Incidents
  BY <1>0, <1>1, Spends
<1>3. RowKept
  BY <1>0, <1>1, <1>2, RowSame
<1>4. TypeOK'
  BY <1>0, <1>1, <1>2, <1>3 DEF TypeOK
<1>5. Whereabouts'
  BY <1>0, <1>1, <1>2, <1>3 DEF Whereabouts
<1>6. Binds' /\ Blank' /\ Proven' /\ Compared' /\ Awaited' /\ TokenAgrees' /\ Stopped'
  BY <1>0, <1>1 DEF Binds, Blank, Proven, Compared, Awaited, TokenAgrees, Stopped, Stopping, Backed, Opening, Sound, Verified
<1> QED BY <1>4, <1>5, <1>6 DEF IInv

\* The row is silent for too long.
LEMMA AgeStep == ASSUME IInv, Age PROVE IInv'
<1>0. /\ TypeOK /\ Whereabouts /\ Binds /\ Blank /\ Proven /\ Compared
      /\ Awaited /\ TokenAgrees /\ Stopped /\ call \in Slots \cup {Nobody}
  BY DEF IInv, TypeOK
<1>1. /\ Spend("silence") /\ row' = [row EXCEPT !.fresh = FALSE]
      /\ UNCHANGED <<mode, codes, queue, req, rev, sweep, cable, bind, cam, engine, lock, board,
                     call, wire, ran, slip>>
  BY <1>0 DEF Age, boardVars, cameraVars
<1>2. RowKept
  BY <1>0, <1>1 DEF RowKept, Same, Rows, TypeOK
<1>3. spent \subseteq spent' /\ spent' \subseteq Incidents
  BY <1>0, <1>1, <1>2, Spends
<1>4. TypeOK'
  BY <1>0, <1>1, <1>2, <1>3 DEF TypeOK, RowKept
<1>5. Whereabouts'
  BY <1>0, <1>1, <1>2, <1>3, WhereaboutsOn
<1>6. Blank'
  BY <1>0, <1>1, <1>2, <1>3, RowOn
<1>7. Proven'
  BY <1>0, <1>1, <1>2, <1>3, RowOn
<1>8. Awaited'
  BY <1>0, <1>1, <1>2, <1>3, AwaitedOn
<1>9. TokenAgrees'
  BY <1>0, <1>1, <1>2, <1>3, TokenOn
<1>10. Stopped'
  BY <1>0, <1>1, <1>2, <1>3, StoppedOn, StoppingSame
<1>11. Binds' /\ Compared'
  BY <1>0, <1>1 DEF Binds, Compared
<1> QED BY <1>4, <1>5, <1>6, <1>7, <1>8, <1>9, <1>10, <1>11 DEF IInv

\* The sweep marks the row, and then stops the camera.
LEMMA SweepMarkStep == ASSUME IInv, SweepMark PROVE IInv'
<1>0. /\ TypeOK /\ Whereabouts /\ Binds /\ Blank /\ Proven /\ Compared
      /\ Awaited /\ TokenAgrees /\ Stopped /\ call \in Slots \cup {Nobody}
  BY DEF IInv, TypeOK
<1>1. /\ sweep = "idle" /\ sweep' = "stop" /\ row' = Aged(row)
      /\ UNCHANGED <<mode, codes, queue, req, rev, cable, bind, cam, engine, lock, board, call,
                     wire, spent, ran, slip>>
  BY <1>0 DEF SweepMark, others, boardVars, cameraVars
<1>2. RowKept
  BY <1>0, <1>1, AgedKeeps DEF RowKept, TypeOK
<1>3. TypeOK'
  BY <1>0, <1>1, <1>2 DEF TypeOK, RowKept
<1>4. Blank'
  BY <1>0, <1>1, <1>2, RowOn
<1>5. Proven'
  BY <1>0, <1>1, <1>2, RowOn
<1>6. Awaited'
  BY <1>0, <1>1, <1>2, AwaitedOn
<1>7. TokenAgrees'
  BY <1>0, <1>1, <1>2, TokenOn
<1>8. Stopped'
  BY <1>0, <1>1, <1>2, StoppedOn DEF Stopping
<1>9. Whereabouts' /\ Binds' /\ Compared'
  BY <1>0, <1>1, <1>2, ComparedOn DEF Whereabouts, Binds
<1> QED BY <1>3, <1>4, <1>5, <1>6, <1>7, <1>8, <1>9 DEF IInv

\* It has stopped the camera.
LEMMA SweepStopStep == ASSUME IInv, SweepStop PROVE IInv'
<1>0. /\ TypeOK /\ Whereabouts /\ Binds /\ Blank /\ Proven /\ Compared
      /\ Awaited /\ TokenAgrees /\ Stopped /\ call \in Slots \cup {Nobody}
  BY DEF IInv, TypeOK
<1>1. /\ sweep' = "idle" /\ engine' = Off /\ lock = Nobody
      /\ UNCHANGED <<mode, codes, row, queue, req, rev, cable, bind, cam, lock, board, call, wire,
                     spent, ran, slip>>
  BY <1>0 DEF SweepStop, others, boardVars, storeVars, StopCamera
<1>2. RowKept
  BY <1>0, <1>1, RowSame
<1>3. TypeOK'
  BY <1>0, <1>1, <1>2, Blanks DEF TypeOK
<1>4. Stopped'
  BY <1>0, <1>1, <1>2, StoppedOff
<1>5. Whereabouts' /\ Binds' /\ Blank' /\ Proven' /\ Compared' /\ Awaited' /\ TokenAgrees'
  BY <1>0, <1>1 DEF Whereabouts, Binds, Blank, Proven, Compared, Awaited, TokenAgrees
<1> QED BY <1>3, <1>4, <1>5 DEF IInv

\* The process dies and comes up again.
LEMMA CrashStep == ASSUME IInv, Crash PROVE IInv'
<1>0. /\ TypeOK /\ Whereabouts /\ Binds /\ Blank /\ Proven /\ Compared
      /\ Awaited /\ TokenAgrees /\ Stopped /\ call \in Slots \cup {Nobody}
  BY DEF IInv, TypeOK
<1>1. /\ Spend("crash") /\ row' = Aged(row) /\ engine' = Off /\ lock' = Nobody
      /\ req' = [s \in Slots |-> NoRequest] /\ rev' = [pc |-> "idle", seen |-> FALSE] /\ sweep' = "idle"
      /\ cable' = IdleCable /\ bind' = [w \in Binders |-> "no"] /\ call' = Nobody
      /\ UNCHANGED <<mode, codes, queue, cam, board, wire, ran, slip>>
  BY <1>0 DEF Crash
<1>2. RowKept
  BY <1>0, <1>1, AgedKeeps DEF RowKept, TypeOK
<1>3. spent \subseteq spent' /\ spent' \subseteq Incidents
  BY <1>0, <1>1, <1>2, Spends
<1>4. TypeOK'
  BY <1>0, <1>1, <1>2, <1>3, Blanks DEF TypeOK, RowKept
<1>5. Whereabouts'
  BY <1>0, <1>1, <1>2, <1>3, Blanks, WhereaboutsOn
<1>6. Binds'
  BY <1>0, <1>1, <1>2, <1>3, Blanks DEF Binds, Binders
<1>7. Blank'
  BY <1>0, <1>1, <1>2, <1>3, RowOn
<1>8. Proven'
  BY <1>0, <1>1, <1>2, <1>3, RowOn
<1>9. Compared'
  BY <1>0, <1>1, <1>2, <1>3, Blanks DEF Compared
<1>10. Awaited'
  BY <1>0, <1>1, <1>2, <1>3 DEF Awaited
<1>11. TokenAgrees'
  BY <1>0, <1>1, <1>2, <1>3, TokenOn
<1>12. Stopped'
  BY <1>0, <1>1, <1>2, <1>3, StoppedOff
<1> QED BY <1>4, <1>5, <1>6, <1>7, <1>8, <1>9, <1>10, <1>11, <1>12 DEF IInv

\* The worker at the cable gets a code and writes it to the board.
LEMMA ProvisionBeginStep == ASSUME IInv, ProvisionBegin PROVE IInv'
<1>0. /\ TypeOK /\ Whereabouts /\ Binds /\ Blank /\ Proven /\ Compared
      /\ Awaited /\ TokenAgrees /\ Stopped /\ call \in Slots \cup {Nobody}
  BY DEF IInv, TypeOK
<1>1. UNCHANGED <<mode, row, queue, req, rev, sweep, bind, cam, engine, lock, board, call, spent,
                  ran, slip>>
  BY <1>0 DEF ProvisionBegin, others, cameraVars
<1>2. \E c \in Codes : /\ codes' = [codes EXCEPT ![c] = "open"] /\ wire' = c
                      /\ cable' = [IdleCable EXCEPT !.pc = "wait", !.code = c]
  BY DEF ProvisionBegin
<1>3. codes' \in [Codes -> {"none", "open", "used", "expired"}] /\ wire' \in 0 .. MaxCode
  BY <1>0, <1>1, <1>2, Constants DEF TypeOK, Codes
<1>4. \A c \in Codes : [IdleCable EXCEPT !.pc = "wait", !.code = c] \in Cables
  <2>1. IdleCable \in Cables /\ \A c \in Codes : c \in 0 .. MaxCode
    BY Constants, Blanks DEF Codes
  <2> QED BY <2>1 DEF Cables
<1>5. cable' \in Cables /\ cable'.pc = "wait"
  BY <1>0, <1>1, <1>2, <1>3, <1>4, Blanks DEF Cables
<1>6. RowKept
  BY <1>0, <1>1, <1>2, <1>3, <1>4, <1>5, RowSame
<1>7. TypeOK'
  BY <1>0, <1>1, <1>2, <1>3, <1>4, <1>5, <1>6 DEF TypeOK
<1>8. Compared'
  BY <1>0, <1>1, <1>2, <1>3, <1>4, <1>5, <1>6 DEF Compared
<1>9. Whereabouts' /\ Binds' /\ Blank' /\ Proven' /\ Awaited' /\ TokenAgrees' /\ Stopped'
  BY <1>0, <1>1 DEF Whereabouts, Binds, Blank, Proven, Awaited, TokenAgrees, Stopped, Stopping,
     Backed, Opening, Sound, Verified
<1> QED BY <1>7, <1>8, <1>9 DEF IInv

\* It writes the line again.
LEMMA ProvisionResendStep == ASSUME IInv, ProvisionResend PROVE IInv'
<1>0. /\ TypeOK /\ Whereabouts /\ Binds /\ Blank /\ Proven /\ Compared
      /\ Awaited /\ TokenAgrees /\ Stopped /\ call \in Slots \cup {Nobody}
  BY DEF IInv, TypeOK
<1>1. /\ wire' = cable.code
      /\ UNCHANGED <<mode, codes, row, queue, req, rev, sweep, cable, bind, cam, engine, lock,
                     board, call, spent, ran, slip>>
  BY <1>0 DEF ProvisionResend, storeVars, cameraVars, CableVars
<1>2. wire' \in 0 .. MaxCode
  BY <1>0, <1>1 DEF TypeOK, Cables
<1>3. RowKept
  BY <1>0, <1>1, <1>2, RowSame
<1>4. TypeOK'
  BY <1>0, <1>1, <1>2, <1>3 DEF TypeOK
<1>5. Whereabouts' /\ Binds' /\ Blank' /\ Proven' /\ Compared' /\ Awaited' /\ TokenAgrees' /\ Stopped'
  BY <1>0, <1>1 DEF Whereabouts, Binds, Blank, Proven, Compared, Awaited, TokenAgrees, Stopped,
     Stopping, Backed, Opening, Sound, Verified
<1> QED BY <1>4, <1>5 DEF IInv

\* It gives up.
LEMMA ProvisionFailsStep == ASSUME IInv, ProvisionFails PROVE IInv'
<1>0. /\ TypeOK /\ Whereabouts /\ Binds /\ Blank /\ Proven /\ Compared
      /\ Awaited /\ TokenAgrees /\ Stopped /\ call \in Slots \cup {Nobody}
  BY DEF IInv, TypeOK
<1>1. /\ cable' = IdleCable
      /\ UNCHANGED <<mode, codes, row, queue, req, rev, sweep, bind, cam, engine, lock, board,
                     call, wire, spent, ran, slip>>
  BY <1>0 DEF ProvisionFails, storeVars, cameraVars, CableVars, CableGives
<1>2. RowKept
  BY <1>0, <1>1, RowSame
<1>3. TypeOK'
  BY <1>0, <1>1, <1>2, Blanks DEF TypeOK
<1>4. Compared'
  BY <1>0, <1>1, <1>2, Blanks DEF Compared
<1>5. Whereabouts' /\ Binds' /\ Blank' /\ Proven' /\ Awaited' /\ TokenAgrees' /\ Stopped'
  BY <1>0, <1>1 DEF Whereabouts, Binds, Blank, Proven, Awaited, TokenAgrees, Stopped, Stopping,
     Backed, Opening, Sound, Verified
<1> QED BY <1>3, <1>4, <1>5 DEF IInv

\* It reads the row, and compares the token that the board has printed.
LEMMA VerifyReadStep == ASSUME IInv, VerifyRead PROVE IInv'
<1>0. /\ TypeOK /\ Whereabouts /\ Binds /\ Blank /\ Proven /\ Compared
      /\ Awaited /\ TokenAgrees /\ Stopped /\ call \in Slots \cup {Nobody}
  BY DEF IInv, TypeOK
<1>1. /\ Fetch /\ cable' = [cable EXCEPT !.pc = "write", !.snap = row']
      /\ UNCHANGED <<mode, codes, queue, req, rev, sweep, bind, cam, lock, board, call, wire,
                     spent, ran, slip>>
  BY <1>0 DEF VerifyRead, others, boardVars
<1>2. RowKept /\ engine' \in {engine, Off}
  BY <1>0, <1>1, FetchKeeps
<1>4. cable' \in Cables /\ cable'.tok = cable.tok /\ cable'.snap = row'
  BY <1>0, <1>1, <1>2 DEF TypeOK, Cables, RowKept
<1>5. TypeOK'
  BY <1>0, <1>1, <1>2, <1>4, Blanks DEF TypeOK, RowKept
<1>6. Blank'
  BY <1>0, <1>1, <1>2, <1>4, RowOn
<1>7. Proven'
  BY <1>0, <1>1, <1>2, <1>4, RowOn
<1>8. Compared'
  BY <1>0, <1>1, <1>2, <1>4 DEF Compared, RowKept, Same
<1>9. Awaited'
  BY <1>0, <1>1, <1>2, <1>4, AwaitedOn
<1>10. TokenAgrees'
  BY <1>0, <1>1, <1>2, <1>4, TokenOn
<1>11. Stopped'
  BY <1>0, <1>1, <1>2, <1>4, StoppedOn, StoppingSame
<1>12. Whereabouts' /\ Binds'
  BY <1>0, <1>1 DEF Whereabouts, Binds
<1> QED BY <1>5, <1>6, <1>7, <1>8, <1>9, <1>10, <1>11, <1>12 DEF IInv

\* It writes the proof of that token and address into the row.
LEMMA VerifyWriteStep == ASSUME IInv, VerifyWrite PROVE IInv'
<1>0. /\ TypeOK /\ Whereabouts /\ Binds /\ Blank /\ Proven /\ Compared
      /\ Awaited /\ TokenAgrees /\ Stopped /\ call \in Slots \cup {Nobody}
  BY DEF IInv, TypeOK
<1>1. /\ cable.pc = "write" /\ cable' = [cable EXCEPT !.pc = "check", !.snap = NoRow]
      /\ UNCHANGED <<mode, codes, queue, req, rev, sweep, bind, cam, engine, lock, board, call,
                     wire, spent, ran>>
  BY <1>0 DEF VerifyWrite, others, boardVars, cameraVars
<1>2. \/ row' = row
      \/ row.here /\ row' = [row EXCEPT !.att = cable.tok, !.attip = cable.snap.ip]
  BY <1>0, <1>1 DEF VerifyWrite
<1>3. cable' \in Cables /\ cable'.pc = "check"
  BY <1>0, <1>1, <1>2, Blanks DEF TypeOK, Cables
<1>4. slip' \subseteq {"answer", "reader"} /\ slip \subseteq slip' /\ (~Astray' => ~Astray /\ (row.here => cable.tok = row.code))
  BY <1>0, <1>1, <1>2, <1>3 DEF VerifyWrite, TypeOK
<1>5. cable.tok \in 0 .. MaxCode /\ cable.snap \in Rows /\ cable.snap.ip \in 0 .. MaxIp
  BY <1>0, <1>1, <1>2, <1>3, <1>4 DEF TypeOK, Cables, Rows
<1>6. /\ row' \in Rows /\ row'.here = row.here /\ row'.revoked = row.revoked /\ row'.code = row.code /\ row'.ip = row.ip
      /\ row' = row \/ (row.here /\ row'.att = cable.tok /\ row'.attip = cable.snap.ip)
  BY <1>0, <1>1, <1>2, <1>3, <1>4, <1>5, ZenonT(60) DEF TypeOK, Rows
<1>7. TypeOK'
  BY <1>0, <1>1, <1>2, <1>3, <1>4, <1>5, <1>6 DEF TypeOK
<1>8. Blank'
  BY <1>0, <1>1, <1>2, <1>3, <1>4, <1>5, <1>6 DEF Blank
<1>9. Proven'
  BY <1>0, <1>4, <1>6 DEF Proven
<1>10. Compared'
  BY <1>0, <1>1, <1>2, <1>3, <1>4, <1>5, <1>6 DEF Compared
<1>11. Awaited'
  BY <1>0, <1>1, <1>2, <1>3, <1>4, <1>5, <1>6 DEF Awaited
<1>12. TokenAgrees'
  BY <1>0, <1>1, <1>2, <1>3, <1>4, <1>5, <1>6 DEF TokenAgrees
<1>13. Stopped'
  <2>1. ASSUME ~Astray', Sound, row' # row
        PROVE  row'.att = row.att /\ row'.attip = row.ip
    <3>1. row.att # 0 /\ row.here
      BY <2>1 DEF Sound, Verified
    <3>2. cable.tok = row.code /\ row.att = row.code /\ cable.snap.ip = row.ip
      BY <1>0, <1>1, <1>4, <2>1, <3>1 DEF Proven, Compared
    <3> QED BY <1>6, <2>1, <3>2
  <2>2. ASSUME ~Astray', Sound
        PROVE  Sound'
    <3>1. CASE row' = row
      BY <1>1, <2>2, <3>1 DEF Sound, Verified
    <3>2. CASE row' # row
      BY <1>1, <1>6, <2>1, <2>2, <3>2 DEF Sound, Verified
    <3> QED BY <3>1, <3>2
  <2>3. Stopping => Stopping'
    BY <1>1, StoppingSame
  <2> QED BY <1>0, <1>1, <1>4, <1>6, <2>2, <2>3, StoppedThen
<1>14. Whereabouts' /\ Binds'
  BY <1>0, <1>1 DEF Whereabouts, Binds
<1> QED BY <1>7, <1>8, <1>9, <1>10, <1>11, <1>12, <1>13, <1>14 DEF IInv

\* It reads the row once more, and binds the camera of a verified board.
LEMMA VerifyCheckStep == ASSUME IInv, VerifyCheck PROVE IInv'
<1>0. /\ TypeOK /\ Whereabouts /\ Binds /\ Blank /\ Proven /\ Compared
      /\ Awaited /\ TokenAgrees /\ Stopped /\ call \in Slots \cup {Nobody}
  BY DEF IInv, TypeOK
<1>1. /\ Fetch
      /\ UNCHANGED <<mode, codes, queue, req, rev, sweep, cam, lock, board, call, wire, spent,
                     ran, slip>>
  BY <1>0 DEF VerifyCheck, others, boardVars
<1>2. RowKept /\ engine' \in {engine, Off}
  BY <1>0, <1>1, FetchKeeps
<1>3. \/ cable' = [cable EXCEPT !.pc = "bind"] /\ bind' = [bind EXCEPT ![Cable] = "check"]
      \/ cable' = IdleCable /\ bind' = bind
  BY <1>0, <1>1, <1>2 DEF VerifyCheck, CableGives, Bind
<1>4. cable' \in Cables /\ cable'.pc # "write"
  BY <1>0, <1>1, <1>2, <1>3, Blanks DEF TypeOK, Cables
<1>5. TypeOK'
  BY <1>0, <1>1, <1>2, <1>3, <1>4, Blanks DEF TypeOK, RowKept, Binders
<1>6. Binds'
  BY <1>0, <1>1, <1>2, <1>3, <1>4, Constants DEF Binds, Binders, TypeOK
<1>7. Blank'
  BY <1>0, <1>1, <1>2, <1>3, <1>4, RowOn
<1>8. Proven'
  BY <1>0, <1>1, <1>2, <1>3, <1>4, RowOn
<1>9. Compared'
  BY <1>0, <1>1, <1>2, <1>3, <1>4 DEF Compared
<1>10. Awaited'
  BY <1>0, <1>1, <1>2, <1>3, <1>4, AwaitedOn
<1>11. TokenAgrees'
  BY <1>0, <1>1, <1>2, <1>3, <1>4, TokenOn
<1>12. Stopped'
  BY <1>0, <1>1, <1>2, <1>3, <1>4, StoppedOn, StoppingSame
<1>13. Whereabouts'
  BY <1>0, <1>1 DEF Whereabouts
<1> QED BY <1>5, <1>6, <1>7, <1>8, <1>9, <1>10, <1>11, <1>12, <1>13 DEF IInv

\* It is through with the camera.
LEMMA ProvisionEndsStep == ASSUME IInv, ProvisionEnds PROVE IInv'
<1>0. /\ TypeOK /\ Whereabouts /\ Binds /\ Blank /\ Proven /\ Compared
      /\ Awaited /\ TokenAgrees /\ Stopped /\ call \in Slots \cup {Nobody}
  BY DEF IInv, TypeOK
<1>1. /\ bind' = [bind EXCEPT ![Cable] = "no"] /\ cable' = IdleCable
      /\ UNCHANGED <<mode, codes, row, queue, req, rev, sweep, cam, engine, lock, board, call,
                     wire, spent, ran, slip>>
  BY <1>0 DEF ProvisionEnds, others, boardVars, storeVars, cameraVars, Bind, CableGives
<1>2. RowKept
  BY <1>0, <1>1, RowSame
<1>3. TypeOK'
  BY <1>0, <1>1, <1>2, Blanks DEF TypeOK, Binders
<1>4. Binds'
  BY <1>0, <1>1, <1>2, Constants DEF Binds, Binders, TypeOK
<1>5. Compared'
  BY <1>0, <1>1, <1>2, Blanks DEF Compared
<1>6. Whereabouts' /\ Blank' /\ Proven' /\ Awaited' /\ TokenAgrees' /\ Stopped'
  BY <1>0, <1>1 DEF Whereabouts, Blank, Proven, Awaited, TokenAgrees, Stopped, Stopping, Backed, Opening, Sound, Verified
<1> QED BY <1>3, <1>4, <1>5, <1>6 DEF IInv

\* The board presents its code.
LEMMA ClaimStep == ASSUME IInv, Claim PROVE IInv'
<1>0. /\ TypeOK /\ Whereabouts /\ Binds /\ Blank /\ Proven /\ Compared
      /\ Awaited /\ TokenAgrees /\ Stopped /\ call \in Slots \cup {Nobody}
  BY DEF IInv, TypeOK
<1>1. /\ board.token = 0 /\ Call("claim", "txn", board.pair)
      /\ UNCHANGED <<mode, codes, row, queue, rev, sweep, cable, bind, cam, engine, lock, board,
                     wire, spent, ran, slip>>
  BY <1>0 DEF Claim, storeVars, cameraVars, server
<1>2. /\ call = Nobody /\ call' \in Slots /\ Served(call') /\ req[call'].pc = "free"
      /\ req'[call'].kind = "claim" /\ req'[call'].pc = "txn" /\ req'[call'].cmds = {}
  BY <1>0, <1>1, BoardTypes, Calls DEF TypeOK
<1>3. RowKept
  BY <1>0, <1>1, <1>2, RowSame
<1>4. TypeOK'
  BY <1>0, <1>1, <1>2, <1>3 DEF TypeOK, Served
<1>5. Whereabouts'
  BY <1>0, <1>1, <1>2, <1>3, WhereaboutsOn DEF Served
<1>6. Binds'
  BY <1>0, <1>1, <1>2, <1>3 DEF Binds, Served
<1>7. Awaited'
  BY <1>0, <1>1, <1>2, <1>3 DEF Awaited
<1>8. Stopped'
  BY <1>0, <1>1, <1>2, <1>3, StoppedOn, StoppingServed
<1>9. Blank' /\ Proven' /\ Compared' /\ TokenAgrees'
  BY <1>0, <1>1 DEF Blank, Proven, Compared, TokenAgrees
<1> QED BY <1>4, <1>5, <1>6, <1>7, <1>8, <1>9 DEF IInv

\* The board sends a heartbeat.
LEMMA BeatStep == ASSUME IInv, Beat PROVE IInv'
<1>0. /\ TypeOK /\ Whereabouts /\ Binds /\ Blank /\ Proven /\ Compared
      /\ Awaited /\ TokenAgrees /\ Stopped /\ call \in Slots \cup {Nobody}
  BY DEF IInv, TypeOK
<1>1. /\ board.token # 0 /\ Call("beat", "read", board.token)
      /\ UNCHANGED <<mode, codes, row, queue, rev, sweep, cable, bind, cam, engine, lock, board,
                     wire, spent, ran, slip>>
  BY <1>0 DEF Beat, storeVars, cameraVars, server
<1>2. /\ call = Nobody /\ call' \in Slots /\ Served(call') /\ req[call'].pc = "free"
      /\ req'[call'].kind = "beat" /\ req'[call'].pc = "read" /\ req'[call'].cmds = {}
  BY <1>0, <1>1, BoardTypes, Calls DEF TypeOK
<1>3. RowKept
  BY <1>0, <1>1, <1>2, RowSame
<1>4. TypeOK'
  BY <1>0, <1>1, <1>2, <1>3 DEF TypeOK, Served
<1>5. Whereabouts'
  BY <1>0, <1>1, <1>2, <1>3, WhereaboutsOn DEF Served
<1>6. Binds'
  BY <1>0, <1>1, <1>2, <1>3 DEF Binds, Served
<1>7. Awaited'
  BY <1>0, <1>1, <1>2, <1>3 DEF Awaited
<1>8. Stopped'
  BY <1>0, <1>1, <1>2, <1>3, StoppedOn, StoppingServed
<1>9. Blank' /\ Proven' /\ Compared' /\ TokenAgrees'
  BY <1>0, <1>1 DEF Blank, Proven, Compared, TokenAgrees
<1> QED BY <1>4, <1>5, <1>6, <1>7, <1>8, <1>9 DEF IInv

\* The board stops waiting.
LEMMA GiveUpStep == ASSUME IInv, GiveUp PROVE IInv'
<1>0. /\ TypeOK /\ Whereabouts /\ Binds /\ Blank /\ Proven /\ Compared
      /\ Awaited /\ TokenAgrees /\ Stopped /\ call \in Slots \cup {Nobody}
  BY DEF IInv, TypeOK
<1>1. /\ call' = Nobody /\ Spend("giveup")
      /\ UNCHANGED <<mode, codes, row, queue, req, rev, sweep, cable, bind, cam, engine, lock,
                     board, wire, ran, slip>>
  BY <1>0 DEF GiveUp, storeVars, cameraVars, server
<1>2. RowKept
  BY <1>0, <1>1, RowSame
<1>3. spent \subseteq spent' /\ spent' \subseteq Incidents
  BY <1>0, <1>1, <1>2, Spends
<1>4. TypeOK'
  BY <1>0, <1>1, <1>2, <1>3 DEF TypeOK
<1>5. Whereabouts'
  BY <1>0, <1>1, <1>2, <1>3, WhereaboutsOn
<1>6. Awaited'
  BY <1>0, <1>1, <1>2, <1>3, AwaitedOn
<1>7. Binds' /\ Blank' /\ Proven' /\ Compared' /\ TokenAgrees' /\ Stopped'
  BY <1>0, <1>1 DEF Binds, Blank, Proven, Compared, TokenAgrees, Stopped, Stopping, Backed, Opening, Sound, Verified
<1> QED BY <1>4, <1>5, <1>6, <1>7 DEF IInv

\* The board prints what it holds.
LEMMA ReadyStep == ASSUME IInv, Ready PROVE IInv'
<1>0. /\ TypeOK /\ Whereabouts /\ Binds /\ Blank /\ Proven /\ Compared
      /\ Awaited /\ TokenAgrees /\ Stopped /\ call \in Slots \cup {Nobody}
  BY DEF IInv, TypeOK
<1>1. /\ cable' = [cable EXCEPT !.pc = "match", !.tok = board.token, !.ip = board.ip]
      /\ UNCHANGED <<mode, codes, row, queue, req, rev, sweep, bind, cam, engine, lock, board,
                     call, wire, spent, ran, slip>>
  BY <1>0 DEF Ready, storeVars, cameraVars
<1>2. board.token \in 0 .. MaxCode /\ board.ip \in 0 .. MaxIp
  <2>1. board.token \in 0 .. MaxCode /\ board.ip \in Ips
    BY <1>0, <1>1, BoardTypes DEF TypeOK
  <2> QED BY <2>1, Constants DEF Ips
<1>3. cable' \in Cables /\ cable'.pc = "match"
  BY <1>0, <1>1, <1>2 DEF TypeOK, Cables
<1>4. RowKept
  BY <1>0, <1>1, <1>2, <1>3, RowSame
<1>5. TypeOK'
  BY <1>0, <1>1, <1>2, <1>3, <1>4 DEF TypeOK
<1>6. Compared'
  BY <1>0, <1>1, <1>2, <1>3, <1>4 DEF Compared
<1>7. Whereabouts' /\ Binds' /\ Blank' /\ Proven' /\ Awaited' /\ TokenAgrees' /\ Stopped'
  BY <1>0, <1>1 DEF Whereabouts, Binds, Blank, Proven, Awaited, TokenAgrees, Stopped, Stopping,
     Backed, Opening, Sound, Verified
<1> QED BY <1>5, <1>6, <1>7 DEF IInv

\* The board takes a new line from the cable and forgets its token.
LEMMA ConfigureStep == ASSUME IInv, Configure PROVE IInv'
<1>0. /\ TypeOK /\ Whereabouts /\ Binds /\ Blank /\ Proven /\ Compared
      /\ Awaited /\ TokenAgrees /\ Stopped /\ call \in Slots \cup {Nobody}
  BY DEF IInv, TypeOK
<1>1. /\ wire' = 0
      /\ UNCHANGED <<mode, codes, row, queue, req, rev, sweep, bind, cam, engine, lock, spent,
                     ran, slip>>
  BY <1>0 DEF Configure, storeVars, cameraVars
<1>2. \/ UNCHANGED <<board, call>>
      \/ board' = [board EXCEPT !.pair = wire, !.token = 0, !.receipt = wire, !.open = FALSE] /\ call' = Nobody
  BY <1>0, <1>1 DEF Configure
<1>3. board' \in Boards /\ call' \in {call, Nobody} /\ board'.token \in {board.token, 0} /\ (call' # Nobody => board' = board)
  BY <1>0, <1>1, <1>2, Constants DEF TypeOK, Boards
<1>4. cable' = cable \/ cable' = [cable EXCEPT !.pc = "acked"]
  BY <1>0, <1>1, <1>2, <1>3 DEF Configure
<1>5. cable' \in Cables /\ (cable'.pc = "write" => cable' = cable)
  BY <1>0, <1>1, <1>2, <1>3, <1>4 DEF TypeOK, Cables
<1>6. RowKept
  BY <1>0, <1>1, <1>2, <1>3, <1>4, <1>5, RowSame
<1>7. TypeOK'
  BY <1>0, <1>1, <1>2, <1>3, <1>4, <1>5, <1>6, Constants DEF TypeOK
<1>8. Compared'
  BY <1>0, <1>1, <1>2, <1>3, <1>4, <1>5, <1>6 DEF Compared
<1>9. Awaited'
  BY <1>0, <1>1, <1>2, <1>3, <1>4, <1>5, <1>6, AwaitedOn
<1>10. TokenAgrees'
  BY <1>0, <1>1, <1>2, <1>3, <1>4, <1>5, <1>6, TokenOn
<1>11. Whereabouts' /\ Binds' /\ Blank' /\ Proven' /\ Stopped'
  BY <1>0, <1>1 DEF Whereabouts, Binds, Blank, Proven, Stopped, Stopping, Backed, Opening, Sound, Verified
<1> QED BY <1>7, <1>8, <1>9, <1>10, <1>11 DEF IInv

\* The board loses power.
LEMMA PowerCycleStep == ASSUME IInv, PowerCycle PROVE IInv'
<1>0. /\ TypeOK /\ Whereabouts /\ Binds /\ Blank /\ Proven /\ Compared
      /\ Awaited /\ TokenAgrees /\ Stopped /\ call \in Slots \cup {Nobody}
  BY DEF IInv, TypeOK
<1>1. /\ Spend("power") /\ call' = Nobody
      /\ UNCHANGED <<mode, codes, row, queue, req, rev, sweep, cable, bind, cam, engine, lock,
                     ran, slip>>
  BY <1>0 DEF PowerCycle, storeVars, cameraVars, server
<1>2. spent \subseteq spent' /\ spent' \subseteq Incidents
  BY <1>0, <1>1, Spends
<1>3. \/ board' = Booted(board) /\ wire' = wire
      \/ /\ wire' = 0
         /\ \E tok \in {board.token, 0} :
               board' = [board EXCEPT !.pair = wire, !.token = tok, !.receipt = 0, !.open = FALSE]
  BY <1>0, <1>1, <1>2 DEF PowerCycle
<1>4. board' \in Boards /\ board'.token \in {board.token, 0}
  <2>1. board \in Boards /\ wire \in 0 .. MaxCode
    BY <1>0, <1>1, <1>2, <1>3 DEF TypeOK
  <2>2. CASE board' = Booted(board)
    BY <2>1, <2>2 DEF Booted, Boards
  <2>3. ASSUME NEW tok \in {board.token, 0}, board' = [board EXCEPT !.pair = wire, !.token = tok, !.receipt = 0, !.open = FALSE]
        PROVE  board' \in Boards /\ board'.token = tok
    BY <2>1, <2>3, Constants DEF Boards
  <2> QED BY <1>0, <1>1, <1>2, <1>3, <2>2, <2>3
<1>5. RowKept
  BY <1>0, <1>1, <1>2, <1>3, <1>4, RowSame
<1>6. TypeOK'
  BY <1>0, <1>1, <1>2, <1>3, <1>4, <1>5, Constants DEF TypeOK
<1>7. Whereabouts'
  BY <1>0, <1>1, <1>2, <1>3, <1>4, <1>5, WhereaboutsOn
<1>8. Awaited'
  BY <1>0, <1>1, <1>2, <1>3, <1>4, <1>5, AwaitedOn
<1>9. TokenAgrees'
  BY <1>0, <1>1, <1>2, <1>3, <1>4, <1>5, TokenOn
<1>10. Binds' /\ Blank' /\ Proven' /\ Compared' /\ Stopped'
  BY <1>0, <1>1 DEF Binds, Blank, Proven, Compared, Stopped, Stopping, Backed, Opening, Sound, Verified
<1> QED BY <1>6, <1>7, <1>8, <1>9, <1>10 DEF IInv

\* The board gets another address.
LEMMA NewAddressStep == ASSUME IInv, NewAddress PROVE IInv'
<1>0. /\ TypeOK /\ Whereabouts /\ Binds /\ Blank /\ Proven /\ Compared
      /\ Awaited /\ TokenAgrees /\ Stopped /\ call \in Slots \cup {Nobody}
  BY DEF IInv, TypeOK
<1>1. /\ Spend("address") /\ call' = Nobody
      /\ UNCHANGED <<mode, codes, row, queue, req, rev, sweep, cable, bind, cam, engine, lock,
                     wire, ran, slip>>
  BY <1>0 DEF NewAddress, storeVars, cameraVars, server
<1>2. spent \subseteq spent' /\ spent' \subseteq Incidents
  BY <1>0, <1>1, Spends
<1>3. board' \in Boards /\ board'.token = board.token
  <2>1. board \in Boards /\ board.ip \in Ips
    BY <1>0, <1>1, <1>2, BoardTypes DEF TypeOK
  <2>2. board.ip + 1 \in Ips
    BY <1>0, <1>1, <1>2, <2>1, Constants DEF NewAddress, Ips
  <2> DEFINE ip == board.ip + 1
  <2>3. board' = [board EXCEPT !.ip = ip, !.open = FALSE] /\ ip \in Ips
    BY <2>2 DEF NewAddress
  <2> HIDE DEF ip
  <2> QED BY <2>1, <2>3 DEF Boards
<1>4. RowKept
  BY <1>0, <1>1, <1>2, <1>3, RowSame
<1>5. TypeOK'
  BY <1>0, <1>1, <1>2, <1>3, <1>4 DEF TypeOK
<1>6. Whereabouts'
  BY <1>0, <1>1, <1>2, <1>3, <1>4, WhereaboutsOn
<1>7. Awaited'
  BY <1>0, <1>1, <1>2, <1>3, <1>4, AwaitedOn
<1>8. TokenAgrees'
  BY <1>0, <1>1, <1>2, <1>3, <1>4, TokenOn
<1>9. Binds' /\ Blank' /\ Proven' /\ Compared' /\ Stopped'
  BY <1>0, <1>1 DEF Binds, Blank, Proven, Compared, Stopped, Stopping, Backed, Opening, Sound, Verified
<1> QED BY <1>5, <1>6, <1>7, <1>8, <1>9 DEF IInv

\* The virtual device gets a code.
LEMMA VirtualEnrollStep == ASSUME IInv, VirtualEnroll PROVE IInv'
<1>0. /\ TypeOK /\ Whereabouts /\ Binds /\ Blank /\ Proven /\ Compared
      /\ Awaited /\ TokenAgrees /\ Stopped /\ call \in Slots \cup {Nobody}
  BY DEF IInv, TypeOK
<1>1. /\ call = Nobody
      /\ UNCHANGED <<mode, row, queue, req, rev, sweep, cable, bind, cam, engine, lock, call,
                     wire, spent, ran, slip>>
  BY <1>0 DEF VirtualEnroll, cameraVars
<1>2. PICK c \in Codes : codes' = [codes EXCEPT ![c] = "open"] /\ board' = [board EXCEPT !.pair = c]
  BY DEF VirtualEnroll
<1>3. codes' \in [Codes -> {"none", "open", "used", "expired"}]
  BY <1>0, <1>1, <1>2 DEF TypeOK
<1>4. board' \in Boards /\ board'.token = board.token
  BY <1>0, <1>1, <1>2, <1>3 DEF TypeOK, Boards, Codes
<1>5. RowKept
  BY <1>0, <1>1, <1>2, <1>3, <1>4, RowSame
<1>6. TypeOK'
  BY <1>0, <1>1, <1>2, <1>3, <1>4, <1>5 DEF TypeOK
<1>7. Awaited'
  BY <1>0, <1>1, <1>2, <1>3, <1>4, <1>5, AwaitedOn
<1>8. TokenAgrees'
  BY <1>0, <1>1, <1>2, <1>3, <1>4, <1>5, TokenOn
<1>9. Whereabouts' /\ Binds' /\ Blank' /\ Proven' /\ Compared' /\ Stopped'
  BY <1>0, <1>1 DEF Whereabouts, Binds, Blank, Proven, Compared, Stopped, Stopping, Backed, Opening, Sound, Verified
<1> QED BY <1>6, <1>7, <1>8, <1>9 DEF IInv

\* Nothing happens.
LEMMA StutterStep == ASSUME IInv, UNCHANGED vars PROVE IInv'
<1>1. UNCHANGED <<mode, codes, row, queue, req, rev, sweep, cable, bind, cam, engine, lock, board, call, wire,
                  spent, ran, slip>>
  BY DEF vars
<1> QED BY <1>1 DEF IInv, TypeOK, Whereabouts, Binds, Blank, Proven, Compared, Awaited,
     TokenAgrees, Stopped,
                    Stopping, Backed, Opening, Sound, Verified

LEMMA Start == Init => IInv
<1> SUFFICES ASSUME Init PROVE IInv
  OBVIOUS
<1>1. TypeOK
  <2>1. board \in Boards
    BY Constants DEF Init, Boards
  <2> QED BY <2>1, Constants, Blanks DEF Init, TypeOK
<1>2. Whereabouts
  BY Blanks DEF Init, Whereabouts
<1>3. Binds
  BY Blanks DEF Init, Binds, Binders
<1>4. Blank /\ Proven /\ TokenAgrees
  BY Blanks DEF Init, Blank, Proven, TokenAgrees
<1>5. Compared
  BY Blanks DEF Init, Compared
<1>6. Awaited /\ Stopped
  BY DEF Init, Awaited, Stopped
<1> QED BY <1>1, <1>2, <1>3, <1>4, <1>5, <1>6 DEF IInv

LEMMA HandlerStep == ASSUME IInv, NEW s \in Slots, Handler(s) PROVE IInv'
BY ClaimRefusedStep, ClaimCommitStep, ClaimStopStep, ClaimRollbackStep, BeatReadStep,
   BeatWriteStep, BeatStopStep,
   BindEndsStep DEF Handler
LEMMA BindingStep == ASSUME IInv, NEW w \in Binders, Binding(w) PROVE IInv'
BY BindCheckStep, BindReplaceStep, BindLookStep, BindOpenStep DEF Binding
LEMMA ProvisioningStep == ASSUME IInv, Provisioning PROVE IInv'
BY ProvisionResendStep, ProvisionFailsStep, VerifyReadStep, VerifyWriteStep, VerifyCheckStep,
   ProvisionEndsStep
   DEF Provisioning

LEMMA NextStep == ASSUME IInv, Next PROVE IInv'
<1>1. CASE \E s \in Slots : Handler(s)
  BY <1>1, HandlerStep
<1>2. CASE \E w \in Binders : Binding(w)
  BY <1>2, BindingStep
<1>3. CASE RevokeRead \/ Revocation
  BY <1>3, RevokeReadStep, RevokeWriteStep, RevokeStopStep DEF Revocation
<1>4. CASE \E c \in Commands : QueueCommand(c)
  BY <1>4, QueueCommandStep
<1>5. CASE Age \/ SweepMark \/ SweepStop \/ Crash
  BY <1>5, AgeStep, SweepMarkStep, SweepStopStep, CrashStep
<1>6. CASE ProvisionBegin \/ Provisioning
  BY <1>6, ProvisionBeginStep, ProvisioningStep
<1>7. CASE Asking \/ GiveUp \/ Ready \/ Configure
  BY <1>7, ClaimStep, BeatStep, GiveUpStep, ReadyStep, ConfigureStep DEF Asking
<1>8. CASE PowerCycle \/ NewAddress \/ VirtualEnroll
  BY <1>8, PowerCycleStep, NewAddressStep, VirtualEnrollStep
<1> QED BY <1>1, <1>2, <1>3, <1>4, <1>5, <1>6, <1>7, <1>8 DEF Next

-----------------------------------------------------------------------------
(* The theorems.                                                           *)

\* However claims, heartbeats, revocations, sweeps, restarts and the worker at
\* the cable overlap, the invariant holds.
THEOREM Invariant == Spec => []IInv
<1>1. Init => IInv
  BY Start
<1>2. IInv /\ [Next]_vars => IInv'
  BY NextStep, StutterStep
<1> QED BY <1>1, <1>2, PTL DEF Spec

\* A running REAL camera that nobody is about to stop reads the address of its
\* row with the credential of its row, verified by a board that held it; and a
\* board that holds a token holds the one of its row, unless it was revoked or
\* the board no longer waited for its claim.  The first holds from each enrollment
\* on until a heartbeat is misled by the row it read, a READY of an earlier token
\* is recorded, or a revocation hides the camera it should stop (heartbeat, revoke
\* and _verify_serial_ready_and_bind of firmware.py).
THEOREM CredentialsAgreeAlways == Spec => []CredentialsAgree
<1>1. IInv => CredentialsAgree
  <2> SUFFICES ASSUME IInv PROVE CredentialsAgree
    OBVIOUS
  <2>1. ASSUME mode = "REAL", ~Astray, Quiet, engine # Off
        PROVE  Verified(row) /\ row.att = row.code /\ engine = [ip |-> row.ip, code |-> row.code]
    <3>1. ~Stopping
      BY <2>1 DEF Quiet, Stopping
    <3>2. Sound /\ engine = [ip |-> row.ip, code |-> row.code]
      BY <2>1, <3>1 DEF IInv, Stopped, Backed
    <3>3. row.att = row.code
      BY <2>1, <3>2 DEF IInv, Proven, Sound, Verified
    <3> QED BY <3>2, <3>3 DEF Sound
  <2>2. RunningIsVerified
    BY <2>1 DEF RunningIsVerified
  <2> QED BY <2>2 DEF IInv, CredentialsAgree
<1> QED BY <1>1, Invariant, PTL

\* A command that the administrator has queued once is run once at most,
\* whatever answer is lost and however heartbeats overlap (firmware.py:1528).
THEOREM CommandOnceAlways == Spec => []CommandOnce
<1>1. IInv => CommandOnce
  <2> SUFFICES ASSUME IInv, NEW n \in Commands PROVE ran[n] <= 1
    BY DEF CommandOnce
  <2>1. ran[n] \in Nat /\ (ran[n] # 0 => ran[n] = 1)
    BY DEF IInv, TypeOK, Whereabouts
  <2> QED BY <2>1
<1> QED BY <1>1, Invariant, PTL
=============================================================================
