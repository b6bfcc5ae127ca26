------------------------------ MODULE UdsServer ------------------------------
(***************************************************************************)
(* The UDS server of the bootloader (shared/diag/src/uds_*.c) as operators *)
(* on a record: the session, the security access and the download of the   *)
(* static variables of its modules.                                        *)
(*                                                                         *)
(* A request is a record [sid, sub, whole, a, b, image]: the service, its  *)
(* sub-function, block counter or routine, whether it has all the bytes    *)
(* the handler insists on, two arguments (address and length, the key, the *)
(* place of a block in its image and its length), and that image. A        *)
(* handler returns the new state, the negative response code or "none",    *)
(* and the flash work that must succeed before a positive response.        *)
(***************************************************************************)
EXTENDS AppFlash

CONSTANTS
    SeqMod      \* values of the 8-bit blockSequenceCounter

ASSUME UdsAssumption == SeqMod \in Nat \ {0}

Services == {"session_control", "ecu_reset", "security_access", "request_download",
             "transfer_data", "transfer_exit", "routine_control"}

\* The negative response codes the handlers use, and "none".
Nrcs == {"none", "out_of_range", "sequence_error", "invalid_key", "wrong_block_sequence_counter",
         "programming_failure", "service_not_supported"}

Erase == 65280      \* UDS_ROUTINE_ERASE_MEMORY
Check == 65281      \* UDS_ROUTINE_CHECK_PROGRAMMED_IMAGE

Request(sid, sub, a, b) ==
    [sid |-> sid, sub |-> sub, whole |-> TRUE, a |-> a, b |-> b, image |-> "none"]

NoWork == [kind |-> "none", pos |-> 0, end |-> 0, at |-> 0]

Download(state, addr, total, written, seq) ==
    [state |-> state, addr |-> addr, total |-> total, written |-> written, seq |-> seq]

\* fbl_diag_init.
Booted ==
    [session  |-> "default", security |-> "locked", seed |-> 0, next |-> 1,
     dl       |-> Download("idle", 0, 0, 0, 0)]

ServerType ==
    [session : {"default", "programming"},
     security : {"locked", "seed_sent", "unlocked"},
     seed : Nat, next : Nat \ {0},
     dl : [state : {"idle", "active", "done"}, addr : Nat, total : Nat,
           written : Nat, seq : 0 .. SeqMod - 1]]

Result(u, nrc, work) == [u |-> u, nrc |-> nrc, work |-> work]
Positive(u) == Result(u, "none", NoWork)
Refused(u, nrc) == Result(u, nrc, NoWork)

SessionControl(u, req) ==
    IF req.whole /\ req.sub \in {1, 2} THEN Positive(u) ELSE Refused(u, "out_of_range")

EcuReset(u, req) == IF req.whole THEN Positive(u) ELSE Refused(u, "out_of_range")

Locked(u) == [u EXCEPT !.security = "locked"]

\* The key the server expects is the seed itself here: the exclusive or with
\* the constant of both sides is one to one.
SecurityAccess(u, req) ==
    CASE ~req.whole /\ req.sub = 0 -> Refused(u, "out_of_range")
      [] req.sub = 1 ->
            Positive([u EXCEPT !.seed = u.next, !.next = u.next + 1, !.security = "seed_sent"])
      [] req.sub = 2 /\ u.security # "seed_sent" -> Refused(Locked(u), "sequence_error")
      [] req.sub = 2 /\ u.security = "seed_sent" /\ (~req.whole \/ req.a # u.seed) ->
            Refused(Locked(u), "invalid_key")
      [] req.sub = 2 /\ u.security = "seed_sent" /\ req.whole /\ req.a = u.seed ->
            Positive([u EXCEPT !.security = "unlocked"])
      [] OTHER -> Refused(u, "out_of_range")

RequestDownload_KeepsCount(u, req) ==
    IF req.whole
    THEN Positive([u EXCEPT !.dl = Download("active", req.a, req.b, u.dl.written, 1 % SeqMod)])
    ELSE Refused(u, "out_of_range")

\* A request for a download always starts afresh.
RequestDownload(u, req) ==
    IF req.whole
    THEN Positive([u EXCEPT !.dl = Download("active", req.a, req.b, 0, 1 % SeqMod)])
    ELSE Refused(u, "out_of_range")

\* The checks before the write; its end is BlockWritten.
TransferData(u, req) ==
    CASE u.dl.state # "active" -> Refused(u, "sequence_error")
      [] u.dl.state = "active" /\ ~req.whole -> Refused(u, "out_of_range")
      [] u.dl.state = "active" /\ req.whole /\ req.sub # u.dl.seq ->
            Refused(u, "wrong_block_sequence_counter")
      [] OTHER ->
            IF u.dl.written + req.b > u.dl.total
            THEN Refused(u, "out_of_range")
            ELSE LET addr == u.dl.addr + u.dl.written
                 IN  IF WriteAccepted(addr, req.b)
                     THEN Result(u, "none", [kind |-> "write", pos |-> addr, end |-> addr + req.b, at |-> req.a])
                     ELSE Refused(u, "programming_failure")

BlockWritten(u, len) ==
    [u EXCEPT !.dl.written = @ + len, !.dl.seq = (@ + 1) % SeqMod]

TransferExit(u, req) ==
    CASE u.dl.state # "active" -> Refused(u, "sequence_error")
      [] u.dl.state = "active" /\ u.dl.written # u.dl.total ->
            Refused([u EXCEPT !.dl.state = "idle"], "sequence_error")
      [] OTHER -> Positive([u EXCEPT !.dl.state = "done"])

\* The outcome of the image check is the work's.
RoutineControl(u, req) ==
    CASE req.whole /\ req.sub = Erase /\ EraseAccepted(req.a, req.b) ->
            Result(u, "none", [kind |-> "erase", pos |-> req.a, end |-> req.a + req.b, at |-> 0])
      [] req.whole /\ req.sub = Erase /\ ~EraseAccepted(req.a, req.b) ->
            Refused(u, "programming_failure")
      [] req.whole /\ req.sub = Check -> Result(u, "none", [NoWork EXCEPT !.kind = "check"])
      [] OTHER -> Refused(u, "out_of_range")

\* find_handler and the dispatch of uds_session_tick.
Handle(u, req) ==
    CASE req.sid = "session_control"  -> SessionControl(u, req)
      [] req.sid = "ecu_reset"        -> EcuReset(u, req)
      [] req.sid = "security_access"  -> SecurityAccess(u, req)
      [] req.sid = "request_download" -> RequestDownload(u, req)
      [] req.sid = "transfer_data"    -> TransferData(u, req)
      [] req.sid = "transfer_exit"    -> TransferExit(u, req)
      [] req.sid = "routine_control"  -> RoutineControl(u, req)
      [] OTHER                        -> Refused(u, "service_not_supported")

\* What uds_session_tick does after a positive response.
FollowUp(u, req) ==
    CASE req.sid = "session_control" /\ req.sub = 1 -> [Locked(u) EXCEPT !.session = "default"]
      [] req.sid = "session_control" /\ req.sub = 2 -> [u EXCEPT !.session = "programming"]
      [] OTHER -> u

\* S3: the session falls back without activity, and locks again.
Expired(u) == [Locked(u) EXCEPT !.session = "default"]

Answer_AlwaysPositive(req, nrc, u) ==
    [sid |-> req.sid, nrc |-> "none", seed |-> IF req.sid = "security_access" THEN u.seed ELSE 0]

\* A positive response carries the request's service; this one, the seed.
Answer(req, nrc, u) ==
    [sid |-> req.sid, nrc |-> nrc, seed |-> IF req.sid = "security_access" THEN u.seed ELSE 0]
=============================================================================
