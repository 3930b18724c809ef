------------------------------- MODULE Requests -------------------------------
(***************************************************************************)
(* Requests of the administration endpoints.  None of them locks what it   *)
(* reads: a request is a chain of statements, and other requests commit    *)
(* between any two.  req holds, for each client, the endpoint ("kind"),    *)
(* the statement it has reached ("step") and what it has read.  served is   *)
(* the set of endpoints a behaviour exercises, chosen at the start: the     *)
(* services only share the clients, so TLC need not interleave them all.   *)
(***************************************************************************)
EXTENDS Naturals

CONSTANTS
  Clients,    \* requests the server handles at the same time
  Scenarios   \* sets of endpoints that are called together

VARIABLES req, served

Idle == [kind |-> "idle", step |-> "none"]

RequestsInit ==
  /\ req = [c \in Clients |-> Idle]
  /\ served \in Scenarios

(* The client may call this endpoint next. *)
MayCall(c, kind) == req[c] = Idle /\ kind \in served

Serves(kind) == kind \in served /\ UNCHANGED served

Idling(c) == req[c] = Idle
At(c, kind, step) ==
  req[c].kind = kind /\ req[c].step = step /\ UNCHANGED served

Becomes(c, r) == Idling(c) /\ Serves(r.kind) /\ req' = [req EXCEPT ![c] = r]
GoesTo(c, step) == req' = [req EXCEPT ![c].step = step]
Done(c) == req' = [req EXCEPT ![c] = Idle]

(* A handler that is one statement leaves the requests alone. *)
Immediate(kind) == Serves(kind) /\ UNCHANGED req

(* An exception, or the loss of the process: the statements that have       *)
(* committed stay, the others never come.                                  *)
Abort(c) == ~Idling(c) /\ Done(c) /\ UNCHANGED served
=============================================================================
