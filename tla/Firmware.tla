------------------------------ MODULE Firmware ------------------------------
(***************************************************************************)
(* One ESP32 camera board and the back end that registers it.              *)
(*                                                                         *)
(* The board (firmware/esp32cam/src) keeps its configuration, its one-time *)
(* pairing code and its token across resets; it claims with the code, then *)
(* sends heartbeats with the token, and opens its video only once this     *)
(* boot has been answered.  The service (apps/api/app/firmware.py) keeps   *)
(* one row per device.  Its handlers read the row, decide, and write it    *)
(* back in a later statement: heartbeats of the same board overlap when    *)
(* the board gives up waiting, and the administrator's revocation, the     *)
(* sweep of the device list and the worker at the serial cable run between *)
(* the two.  The camera of a REAL device is started only for a row that a  *)
(* READY line on the cable has verified; Runtime.start checks this under   *)
(* Runtime.lock, and Runtime.stop waits for that lock.                     *)
(*                                                                         *)
(* Codes are numbered in the order they are issued, and a token is named   *)
(* by the code it was handed out for.  An address stands for the stream    *)
(* and capture URLs derived from it.                                       *)
(***************************************************************************)
EXTENDS Naturals, FiniteSets

CONSTANTS Modes,        \* the runtime modes to explore: subset of {"REAL", "DEMO"}
          Slots,        \* request handlers of the server that can run at once
          Cable,        \* the worker at the serial port
          Nobody,       \* no slot, no owner of the lock
          MaxCode,      \* codes ever issued
          MaxIp,        \* addresses the router ever gives the board
          Incidents,    \* what may happen from outside, once each: see Kinds
          MaxIncidents, \* how many of them in one behaviour, besides giveup
          MaxBusy       \* handlers between two of their steps at the same time

Commands == {"reboot", "factory_reset"}
Kinds == Commands \cup {"giveup", "power", "crash", "address", "silence", "revoke"}

ASSUME FirmwareConstants ==
    /\ Modes \subseteq {"REAL", "DEMO"} /\ Incidents \subseteq Kinds
    /\ Cable \notin Slots /\ Nobody \notin Slots \cup {Cable}
    /\ {MaxCode, MaxIp, MaxIncidents, MaxBusy} \subseteq Nat /\ MaxIp > 0

VARIABLES mode,    \* the mode of the process, fixed at start
          codes,   \* the enrollments, by code
          row,     \* the device's row
          queue,   \* commands still queued
          req,     \* the request handlers
          rev,     \* the administrator's revocation
          sweep,   \* the stale-device sweep of a device list request
          cable,   \* the serial worker
          bind,    \* progress of bind_device for each handler that may call it
          cam,     \* the address saved in the camera's row, 0 if there is none
          engine,  \* the running reader of the camera
          lock,    \* the handler inside Runtime.start, or Nobody
          board,   \* the board's stored and volatile state
          call,    \* the handler the board waits for, or Nobody
          wire,    \* configuration line on its way to the board, 0 if none
          spent,   \* the incidents that have happened
          ran,     \* how often the board has run each command
          slip     \* what the enrollment of the row has lost since it was made:
                   \* "answer", nobody waited for its answer; "reader", see
                   \* BeatWrite, RevokeWrite and VerifyWrite

vars == <<mode, codes, row, queue, req, rev, sweep, cable, bind, cam, engine, lock,
          board, call, wire, spent, ran, slip>>

boardVars == <<board, call, wire, ran>>
storeVars == <<codes, row, queue>>
cameraVars == <<cam, engine, lock>>
others == <<mode, spent>>

Codes == 1 .. MaxCode
Ips == 1 .. MaxIp
Binders == Slots \cup {Cable}

Rows == [here : BOOLEAN, code : 0 .. MaxCode, revoked : BOOLEAN, online : BOOLEAN, fresh : BOOLEAN,
         ip : 0 .. MaxIp, att : 0 .. MaxCode, attip : 0 .. MaxIp]
NoRow == [here |-> FALSE, code |-> 0, revoked |-> FALSE, online |-> FALSE, fresh |-> FALSE,
          ip |-> 0, att |-> 0, attip |-> 0]
Requests == [kind : {"none", "claim", "beat"},
             pc : {"free", "txn", "read", "write", "stop", "bind", "rollback"},
             code : 0 .. MaxCode, ip : 0 .. MaxIp, snap : Rows, cmds : SUBSET Commands]
NoRequest == [kind |-> "none", pc |-> "free", code |-> 0, ip |-> 0, snap |-> NoRow, cmds |-> {}]
Readers == [ip : 0 .. MaxIp, code : 0 .. MaxCode]
Cables == [pc : {"idle", "wait", "acked", "match", "write", "check", "bind"},
           code : 0 .. MaxCode, tok : 0 .. MaxCode, ip : 0 .. MaxIp, snap : Rows]
Boards == [pair : 0 .. MaxCode, token : 0 .. MaxCode, receipt : 0 .. MaxCode, open : BOOLEAN, ip : Ips]
Off == [ip |-> 0, code |-> 0]
IdleCable == [pc |-> "idle", code |-> 0, tok |-> 0, ip |-> 0, snap |-> NoRow]

Init ==
    /\ mode \in Modes
    /\ codes = [c \in Codes |-> "none"]
    /\ row = NoRow /\ queue = {} /\ cam = 0 /\ engine = Off /\ lock = Nobody
    /\ req = [s \in Slots |-> NoRequest]
    /\ rev = [pc |-> "idle", seen |-> FALSE]
    /\ sweep = "idle"
    /\ cable = IdleCable
    /\ bind = [w \in Binders |-> "no"]
    /\ board = [pair |-> 0, token |-> 0, receipt |-> 0, open |-> FALSE, ip |-> 1]
    /\ call = Nobody /\ wire = 0
    /\ spent = {}
    /\ ran = [n \in Commands |-> 0]
    /\ slip = {}

----------------------------------------------------------------------------
(* What the service reads from a row.                                      *)

\* _device_dict: hardware_verified as the service reports it.
Verified(r) == mode = "REAL" /\ r.here /\ ~r.revoked /\ r.att # 0 /\ r.attip = r.ip
\* firmware_device_for_camera, and what bind_device and start require of it.
Allowed(r) == IF mode = "REAL" THEN Verified(r) ELSE r.here

Stale(r) == r.online /\ ~r.fresh
Aged(r) == [r EXCEPT !.online = FALSE]

\* get_device: the sweep of stale rows with its stop, then the row.  A sweep
\* whose stop comes later is SweepMark and SweepStop.
Fetch ==
    IF Stale(row) THEN lock = Nobody /\ row' = Aged(row) /\ engine' = Off
                  ELSE UNCHANGED <<row, engine>>

\* Runtime.stop waits for Runtime.lock.
StopCamera == lock = Nobody /\ engine' = Off

FirstFree(c) == codes[c] = "none" /\ \A d \in Codes : d < c => codes[d] # "none"
Spend(what) ==
    /\ what \in Incidents \ spent /\ spent' = spent \cup {what}
    /\ what = "giveup" \/ Cardinality(spent \ {"giveup"}) < MaxIncidents

Busy == Cardinality({s \in Slots : req[s].pc # "free"}) + (IF rev.pc = "idle" THEN 0 ELSE 1)
        + (IF sweep = "idle" THEN 0 ELSE 1) + (IF cable.pc \in {"write", "check", "bind"} THEN 1 ELSE 0)
Room == Busy < MaxBusy

Step(s, r) == req' = [req EXCEPT ![s] = r]
At(s, pc) == req[s].pc = pc
Go(s, pc) == Step(s, [req[s] EXCEPT !.pc = pc]) /\ UNCHANGED boardVars

Booted(b) == [b EXCEPT !.open = FALSE]
Wiped == [board EXCEPT !.pair = 0, !.token = 0, !.receipt = 0, !.open = FALSE]

\* applyCommand: the first command restarts the board, which forgets the rest.
Obeys(cmds) ==
    IF cmds = {} THEN board' = [board EXCEPT !.open = TRUE] /\ UNCHANGED ran
    ELSE \E n \in cmds : /\ board' = (IF n = "reboot" THEN Booted(board) ELSE Wiped)
                         /\ ran' = [ran EXCEPT ![n] = @ + 1]

\* parseClaimResponse and sendHeartbeat.
Accepts(r, res, cmds) ==
    CASE res = "ok" /\ r.kind = "claim" ->
            board' = [board EXCEPT !.token = r.code, !.pair = 0, !.open = TRUE] /\ UNCHANGED ran
      [] res = "ok" /\ r.kind = "beat" -> Obeys(cmds)
      [] res = "denied" -> board' = [board EXCEPT !.token = 0, !.open = FALSE] /\ UNCHANGED ran
      [] OTHER -> UNCHANGED <<board, ran>>

\* The handler ends; its answer reaches the board, or a closed connection.
Reply(s, res, cmds) ==
    /\ Step(s, NoRequest)
    /\ IF call = s THEN call' = Nobody /\ Accepts(req[s], res, cmds) ELSE UNCHANGED <<call, board, ran>>
    /\ UNCHANGED wire

----------------------------------------------------------------------------
(* A claim: one transaction, then the camera.                              *)

\* The code is unknown, used or ten minutes old; whether it has expired shows
\* when it is presented.
ClaimRefused(s) ==
    /\ At(s, "txn")
    /\ \/ codes[req[s].code] # "open" /\ UNCHANGED codes
       \/ codes[req[s].code] = "open" /\ codes' = [codes EXCEPT ![req[s].code] = "expired"]
    /\ Reply(s, "error", {})
    /\ UNCHANGED <<others, cameraVars, row, queue, rev, sweep, cable, bind, slip>>

MutantIssued(s) == [row EXCEPT !.here = TRUE, !.revoked = FALSE, !.ip = req[s].ip, !.att = 0, !.attip = 0]
MutantKeptProof(s) == [row EXCEPT !.here = TRUE, !.revoked = FALSE, !.code = req[s].code, !.ip = req[s].ip]
Issued(s) == [NoRow EXCEPT !.here = TRUE, !.code = req[s].code, !.ip = req[s].ip]

\* The row is replaced: a new token, no proof, offline.  A REAL device that
\* was registered before has its reader stopped, a simulated one is bound.
ClaimCommit(s) ==
    /\ At(s, "txn") /\ codes[req[s].code] = "open"
    /\ codes' = [codes EXCEPT ![req[s].code] = "used"]
    /\ row' = Issued(s)
    /\ IF mode = "DEMO" THEN Go(s, "bind") /\ bind' = [bind EXCEPT ![s] = "check"]
       ELSE /\ IF row.here THEN Go(s, "stop") ELSE Reply(s, "ok", {})
            /\ UNCHANGED bind
    /\ slip' = IF call = s THEN {} ELSE {"answer"}
    /\ UNCHANGED <<others, cameraVars, queue, rev, sweep, cable>>

ClaimStop(s) ==
    /\ At(s, "stop") /\ req[s].kind = "claim"
    /\ StopCamera
    /\ Reply(s, "ok", {})
    /\ UNCHANGED <<others, storeVars, rev, sweep, cable, bind, cam, lock, slip>>

\* _rollback_claim: the camera could not be started, the code is free again.
ClaimRollback(s) ==
    /\ At(s, "rollback")
    /\ row' = NoRow
    /\ codes' = [codes EXCEPT ![req[s].code] = "open"]
    /\ Reply(s, "error", {})
    /\ UNCHANGED <<others, cameraVars, queue, rev, sweep, cable, bind, slip>>

----------------------------------------------------------------------------
(* A heartbeat: read, then write everything back.                          *)

BeatRead(s) ==
    /\ At(s, "read")
    /\ Fetch
    /\ IF row.here /\ ~row.revoked /\ row.code = req[s].code
       THEN Step(s, [req[s] EXCEPT !.pc = "write", !.snap = row']) /\ UNCHANGED boardVars
       ELSE Reply(s, "denied", {})
    /\ UNCHANGED <<others, codes, queue, rev, sweep, cable, bind, cam, lock, slip>>

\* preserve_attestation, from the row as it was read.
Keeps(s) == LET r == req[s].snap IN req[s].ip = r.ip /\ Verified(r)
Moved(s) == req[s].ip # req[s].snap.ip
Rebinds(s) == (Moved(s) \/ ~req[s].snap.online) /\ (mode = "DEMO" \/ Keeps(s))

Refreshed(s) ==
    [row EXCEPT !.ip = req[s].ip, !.online = TRUE, !.fresh = TRUE,
                !.att = IF Keeps(s) THEN req[s].snap.att ELSE 0,
                !.attip = IF Keeps(s) THEN req[s].snap.attip ELSE 0]

\* The row has moved, or has lost, got or changed its proof since it was read:
\* what is written back, or whether the camera is stopped, is decided by a row
\* that is no longer there.  A proof that a new enrollment has reset comes back.
Misled(s) ==
    LET r == req[s].snap
    IN row.here /\ (row.ip # r.ip \/ row.att # r.att \/ Verified(row) # Verified(r))

MutantTaken == queue
Taken == {}

\* The queued commands are taken in the same transaction.
BeatWrite(s) ==
    /\ At(s, "write")
    /\ row' = IF row.here THEN Refreshed(s) ELSE row
    /\ queue' = Taken
    /\ LET on(pc) == Step(s, [req[s] EXCEPT !.pc = pc, !.cmds = queue, !.snap = NoRow]) /\ UNCHANGED boardVars
       IN \/ mode = "REAL" /\ Moved(s) /\ on("stop") /\ UNCHANGED bind
          \/ Rebinds(s) /\ on("bind") /\ bind' = [bind EXCEPT ![s] = "check"]
          \/ ~(mode = "REAL" /\ Moved(s)) /\ ~Rebinds(s) /\ Reply(s, "ok", queue) /\ UNCHANGED bind
    /\ slip' = slip \cup (IF Misled(s) THEN {"reader"} ELSE {})
    /\ UNCHANGED <<others, cameraVars, codes, rev, sweep, cable>>

BeatStop(s) ==
    /\ At(s, "stop") /\ req[s].kind = "beat"
    /\ StopCamera
    /\ Reply(s, "ok", req[s].cmds)
    /\ UNCHANGED <<others, storeVars, rev, sweep, cable, bind, cam, lock, slip>>

----------------------------------------------------------------------------
(* bind_device, called by a heartbeat, a simulated claim or the serial      *)
(* worker: identity, camera row, stop of an old reader, start.              *)

Bind(w, to) == bind' = [bind EXCEPT ![w] = to]

BindCheck(w) ==
    /\ bind[w] = "check"
    /\ IF Allowed(row)
       THEN cam' = row.ip /\ Bind(w, IF cam = 0 THEN "look" ELSE "replace")
       ELSE UNCHANGED cam /\ Bind(w, "failed")
    /\ UNCHANGED <<others, boardVars, storeVars, req, rev, sweep, cable, engine, lock, slip>>

BindReplace(w) ==
    /\ bind[w] = "replace"
    /\ StopCamera
    /\ Bind(w, "look")
    /\ UNCHANGED <<others, boardVars, storeVars, req, rev, sweep, cable, cam, lock, slip>>

MutantBindLook(w) ==
    /\ bind[w] = "look" /\ lock = Nobody
    /\ \/ Allowed(row) /\ cam = row.ip /\ engine = Off /\ lock' = w /\ Bind(w, "open")
       \/ Allowed(row) /\ cam = row.ip /\ engine # Off /\ UNCHANGED lock /\ Bind(w, "running")
       \/ ~(Allowed(row) /\ cam = row.ip) /\ UNCHANGED lock /\ Bind(w, "failed")
    /\ UNCHANGED <<others, boardVars, storeVars, req, rev, sweep, cable, cam, engine, slip>>

\* Runtime.start takes the lock and reads the identity again.
BindLook(w) ==
    /\ bind[w] = "look" /\ lock = Nobody
    /\ \/ Allowed(row) /\ cam = row.ip /\ engine = Off /\ lock' = w /\ Bind(w, "open")
       \/ Allowed(row) /\ cam = row.ip /\ engine # Off /\ UNCHANGED lock /\ Bind(w, "done")
       \/ ~(Allowed(row) /\ cam = row.ip) /\ UNCHANGED lock /\ Bind(w, "failed")
    /\ UNCHANGED <<others, boardVars, storeVars, req, rev, sweep, cable, cam, engine, slip>>

\* _configure_esp32_read_auth, in REAL mode.
Credential(r) == mode = "REAL" => r.here /\ ~r.revoked /\ r.att # 0 /\ r.ip = cam

\* The credential is read and the source is opened under the lock: a row that
\* has lost its proof meanwhile has no credential, and a source may not open.
BindOpen(w) ==
    /\ bind[w] = "open" /\ lock = w /\ lock' = Nobody
    /\ \/ Credential(row) /\ engine' = [ip |-> cam, code |-> row.code] /\ Bind(w, "done")
       \/ UNCHANGED engine /\ Bind(w, "failed")
    /\ UNCHANGED <<others, boardVars, storeVars, req, rev, sweep, cable, cam, slip>>

\* A heartbeat answers whatever became of the camera; a claim does not.
BindEnds(s) ==
    /\ bind[s] \in {"done", "failed"} /\ Bind(s, "no")
    /\ IF req[s].kind = "claim" /\ bind[s] = "failed" THEN Go(s, "rollback") ELSE Reply(s, "ok", req[s].cmds)
    /\ UNCHANGED <<others, storeVars, cameraVars, rev, sweep, cable, slip>>

----------------------------------------------------------------------------
(* The administrator and the device list.                                  *)

\* The camera to stop is taken from the public record, which hides the
\* camera of a device that is not verified.
RevokeRead ==
    /\ Room /\ rev.pc = "idle" /\ row.here /\ Spend("revoke")
    /\ Fetch
    /\ rev' = [pc |-> "write", seen |-> mode = "DEMO" \/ Verified(row')]
    /\ UNCHANGED <<mode, boardVars, codes, queue, req, sweep, cable, bind, cam, lock, slip>>

RevokeWrite ==
    /\ rev.pc = "write"
    /\ row' = IF row.here THEN [row EXCEPT !.code = 0, !.revoked = TRUE, !.online = FALSE, !.att = 0, !.attip = 0] ELSE row
    /\ rev' = [rev EXCEPT !.pc = "stop"]
    /\ slip' = slip \cup (IF ~rev.seen /\ row.att # 0 THEN {"reader"} ELSE {})
    /\ UNCHANGED <<others, boardVars, cameraVars, codes, queue, req, sweep, cable, bind>>

RevokeStop ==
    /\ rev.pc = "stop" /\ rev' = [pc |-> "idle", seen |-> FALSE]
    /\ IF rev.seen THEN StopCamera ELSE UNCHANGED engine
    /\ UNCHANGED <<others, boardVars, storeVars, req, sweep, cable, bind, cam, lock, slip>>

QueueCommand(c) ==
    /\ row.here /\ Spend(c)
    /\ queue' = queue \cup {c}
    /\ UNCHANGED <<mode, boardVars, cameraVars, codes, row, req, rev, sweep, cable, bind, slip>>

\* 45 seconds without a heartbeat.
Age ==
    /\ row.fresh /\ Spend("silence") /\ row' = [row EXCEPT !.fresh = FALSE]
    /\ UNCHANGED <<mode, boardVars, cameraVars, codes, queue, req, rev, sweep, cable, bind, slip>>

SweepMark ==
    /\ Room /\ sweep = "idle" /\ Stale(row) /\ sweep' = "stop"
    /\ row' = Aged(row)
    /\ UNCHANGED <<others, boardVars, cameraVars, codes, queue, req, rev, cable, bind, slip>>
SweepStop ==
    /\ sweep = "stop" /\ sweep' = "idle"
    /\ StopCamera
    /\ UNCHANGED <<others, boardVars, storeVars, req, rev, cable, bind, cam, lock, slip>>

\* The process ends and comes up again: the reader and all handlers are gone,
\* and no row is online.
Crash ==
    /\ Spend("crash")
    /\ row' = Aged(row) /\ engine' = Off /\ lock' = Nobody
    /\ req' = [s \in Slots |-> NoRequest] /\ rev' = [pc |-> "idle", seen |-> FALSE] /\ sweep' = "idle"
    /\ cable' = IdleCable /\ bind' = [w \in Binders |-> "no"]
    /\ call' = Nobody
    /\ UNCHANGED <<mode, codes, queue, cam, board, wire, ran, slip>>

----------------------------------------------------------------------------
(* Provisioning over the cable.                                            *)

CableVars == <<mode, storeVars, cameraVars, req, rev, sweep, bind, slip>>

\* A fresh code; opening the port drops what the board printed before.
ProvisionBegin ==
    /\ mode = "REAL" /\ cable.pc = "idle"
    /\ \E c \in Codes : FirstFree(c) /\ codes' = [codes EXCEPT ![c] = "open"]
                                     /\ cable' = [IdleCable EXCEPT !.pc = "wait", !.code = c]
                                     /\ wire' = c
    /\ UNCHANGED <<others, cameraVars, row, queue, req, rev, sweep, bind, slip, board, call, ran>>

\* The line is sent again until it is acknowledged.
ProvisionResend ==
    /\ cable.pc = "wait" /\ wire = 0 /\ wire' = cable.code
    /\ UNCHANGED <<CableVars, spent, cable, board, call, ran>>

CableGives == cable' = IdleCable

\* The deadline, a refused line, a row that does not match.
ProvisionFails ==
    /\ \/ cable.pc \in {"wait", "acked"}
       \/ cable.pc = "match" /\ ~(row.here /\ row.ip = cable.ip)
    /\ CableGives
    /\ UNCHANGED <<CableVars, spent, board, call, wire, ran>>

VerifyRead ==
    /\ Room /\ cable.pc = "match" /\ row.here /\ row.ip = cable.ip
    /\ Fetch
    /\ cable' = [cable EXCEPT !.pc = "write", !.snap = row']
    /\ UNCHANGED <<others, boardVars, codes, queue, req, rev, sweep, bind, cam, lock, slip>>

VerifyWrite ==
    /\ cable.pc = "write"
    /\ row' = IF row.here THEN [row EXCEPT !.att = cable.tok, !.attip = cable.snap.ip] ELSE row
    /\ slip' = slip \cup (IF row.here /\ cable.tok # row.code THEN {"reader"} ELSE {})
    /\ cable' = [cable EXCEPT !.pc = "check", !.snap = NoRow]
    /\ UNCHANGED <<others, boardVars, cameraVars, codes, queue, req, rev, sweep, bind>>

VerifyCheck ==
    /\ cable.pc = "check"
    /\ Fetch
    /\ IF Verified(row) THEN cable' = [cable EXCEPT !.pc = "bind"] /\ Bind(Cable, "check")
                        ELSE CableGives /\ UNCHANGED bind
    /\ UNCHANGED <<others, boardVars, codes, queue, req, rev, sweep, cam, lock, slip>>

ProvisionEnds ==
    /\ cable.pc = "bind" /\ bind[Cable] \in {"done", "failed"} /\ Bind(Cable, "no")
    /\ CableGives
    /\ UNCHANGED <<others, boardVars, storeVars, cameraVars, req, rev, sweep, slip>>

----------------------------------------------------------------------------
(* The board.  It has one request at a time.                               *)

server == <<mode, storeVars, cameraVars, rev, sweep, cable, bind, slip>>

Call(kind, pc, code) ==
    /\ Room /\ call = Nobody
    /\ LET free == {s \in Slots : At(s, "free")}
           s == CHOOSE s \in free : TRUE
       IN /\ free # {} /\ call' = s
          /\ Step(s, [NoRequest EXCEPT !.kind = kind, !.pc = pc, !.code = code, !.ip = board.ip])

Claim == /\ board.token = 0 /\ board.pair # 0 /\ Call("claim", "txn", board.pair)
         /\ UNCHANGED <<server, board, wire, spent, ran>>
Beat == /\ board.token # 0 /\ Call("beat", "read", board.token)
        /\ UNCHANGED <<server, board, wire, spent, ran>>

GiveUp ==
    /\ call # Nobody /\ call' = Nobody /\ Spend("giveup")
    /\ UNCHANGED <<server, req, board, wire, ran>>

\* printReady, after a claim and repeatedly while authenticated; the worker
\* takes it for the confirmation even when it has read no ACK.
Ready ==
    /\ board.open /\ cable.pc \in {"wait", "acked"}
    /\ cable' = [cable EXCEPT !.pc = "match", !.tok = board.token, !.ip = board.ip]
    /\ UNCHANGED <<mode, storeVars, cameraVars, rev, sweep, bind, slip, req, board, call, wire, spent, ran>>

Reused(c) == board.receipt = c /\ (board.pair = c \/ (board.pair = 0 /\ board.token # 0))

\* processConfigLine: a repeated line changes nothing, a new one is stored
\* with its receipt last and restarts the board.  The worker stops sending
\* when it reads the acknowledgement, which may be lost.
Configure ==
    /\ wire # 0 /\ wire' = 0
    /\ IF Reused(wire) THEN UNCHANGED <<board, call>>
       ELSE board' = [board EXCEPT !.pair = wire, !.token = 0, !.receipt = wire, !.open = FALSE] /\ call' = Nobody
    /\ \/ cable.pc = "wait" /\ cable' = [cable EXCEPT !.pc = "acked"]
       \/ UNCHANGED cable
    /\ UNCHANGED <<mode, storeVars, cameraVars, rev, sweep, bind, slip, req, spent, ran>>

\* The board loses power, possibly while it stores a line: the old receipt is
\* gone and the new code may stand beside the old token.
PowerCycle ==
    /\ Spend("power") /\ call' = Nobody
    /\ \/ board' = Booted(board) /\ UNCHANGED wire
       \/ /\ wire # 0 /\ ~Reused(wire) /\ wire' = 0
          /\ \E tok \in {board.token, 0} :
                board' = [board EXCEPT !.pair = wire, !.token = tok, !.receipt = 0, !.open = FALSE]
    /\ UNCHANGED <<server, req, ran>>

\* The router gives the board another address.
NewAddress ==
    /\ board.ip < MaxIp /\ Spend("address")
    /\ board' = [board EXCEPT !.ip = @ + 1, !.open = FALSE] /\ call' = Nobody
    /\ UNCHANGED <<server, req, wire, ran>>

\* The virtual device gets its code from the local back end.
VirtualEnroll ==
    /\ mode = "DEMO" /\ board.token = 0 /\ call = Nobody
    /\ \E c \in Codes : FirstFree(c) /\ codes' = [codes EXCEPT ![c] = "open"]
                                     /\ board' = [board EXCEPT !.pair = c]
    /\ UNCHANGED <<mode, cameraVars, rev, sweep, cable, bind, slip, row, queue, req, call, wire, spent, ran>>

----------------------------------------------------------------------------
Handler(s) ==
    \/ ClaimRefused(s) \/ ClaimCommit(s) \/ ClaimStop(s) \/ ClaimRollback(s)
    \/ BeatRead(s) \/ BeatWrite(s) \/ BeatStop(s) \/ BindEnds(s)
Binding(w) == BindCheck(w) \/ BindReplace(w) \/ BindLook(w) \/ BindOpen(w)
Revocation == RevokeWrite \/ RevokeStop
Provisioning == ProvisionResend \/ ProvisionFails \/ VerifyRead \/ VerifyWrite \/ VerifyCheck \/ ProvisionEnds
Asking == Claim \/ Beat

Next ==
    \/ \E s \in Slots : Handler(s)
    \/ \E w \in Binders : Binding(w)
    \/ RevokeRead \/ Revocation
    \/ \E c \in Commands : QueueCommand(c)
    \/ Age
    \/ SweepMark \/ SweepStop
    \/ Crash
    \/ ProvisionBegin \/ Provisioning
    \/ Asking \/ GiveUp \/ Ready \/ Configure \/ PowerCycle \/ NewAddress \/ VirtualEnroll

Spec == Init /\ [][Next]_vars

----------------------------------------------------------------------------
TypeOK ==
    /\ mode \in Modes
    /\ codes \in [Codes -> {"none", "open", "used", "expired"}]
    /\ row \in Rows /\ queue \subseteq Commands
    /\ req \in [Slots -> Requests]
    /\ rev \in [pc : {"idle", "write", "stop"}, seen : BOOLEAN]
    /\ sweep \in {"idle", "stop"}
    /\ cable \in Cables
    /\ bind \in [Binders -> {"no", "check", "replace", "look", "open", "done", "failed"}]
    /\ cam \in 0 .. MaxIp /\ engine \in Readers /\ lock \in Binders \cup {Nobody}
    /\ board \in Boards
    /\ call \in Slots \cup {Nobody} /\ wire \in 0 .. MaxCode
    /\ spent \subseteq Incidents
    /\ ran \in [Commands -> Nat] /\ slip \subseteq {"answer", "reader"}

\* Nobody is between two steps that touch the camera.
Quiet ==
    /\ \A s \in Slots : req[s].pc \in {"free", "txn", "read", "write"}
    /\ rev.pc = "idle" /\ sweep = "idle" /\ lock = Nobody
    /\ \A w \in Binders : bind[w] \in {"no", "done", "failed"}

\* Once nobody who will stop it is under way, a running REAL camera reads the
\* address and presents the credential of its row, and the row is verified by a
\* READY of a board that held the token the row has now.  Three overlaps break
\* this, until the device is enrolled again: a heartbeat that was Misled, among
\* them one that puts the proof of an earlier token back over the new enrollment
\* which had reset it; a READY printed under an earlier token and recorded after
\* it; a revocation that began before the device was verified and stops nothing.
RunningIsVerified ==
    mode = "REAL" /\ "reader" \notin slip /\ Quiet /\ engine # Off
        => Verified(row) /\ row.att = row.code /\ engine = [ip |-> row.ip, code |-> row.code]

\* A board that holds a token holds the one in its row, unless it was revoked, or
\* the row is of a claim for whose answer the board no longer waited.
TokenAgrees ==
    "answer" \notin slip /\ row.here /\ ~row.revoked /\ board.token # 0 => board.token = row.code

\* The board runs a command once at most, whatever it gives up waiting for
\* and however its heartbeats overlap.
CommandOnce == \A n \in Commands : ran[n] <= 1

\* Board, row and reader agree on the credential.
CredentialsAgree == TypeOK /\ RunningIsVerified /\ TokenAgrees
=============================================================================
