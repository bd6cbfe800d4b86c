----------------------------- MODULE WorkerProtocol ----------------------------
(***************************************************************************)
(* Worker clients on the durable lease protocol: WorkerClient              *)
(* (src/swarm/workers/client.py) over a transport to DurableWorkerService   *)
(* (service.py), whose rows and transactions are LeaseFencing's.            *)
(*                                                                         *)
(* A client keeps in memory the credentials of its last answered enrolment  *)
(* and the leases it believes are active.  Transports other than the        *)
(* in-process one may lose a request or an answer.  A lost request is no    *)
(* step; a request whose answer is lost moves the rows and not the client,  *)
(* and so does every step of the control plane.                             *)
(***************************************************************************)
EXTENDS LeaseFencing

VARIABLE clients  \* worker_generation and active_lease_ids of a client

protocolVars == <<vars, clients>>

\* Generation 0 stands for a client that is not enrolled: its membership token is that
\* of its generation.
Client == [generation : Nat, leases : SUBSET Leases]

ProtocolTypeOK == TypeOK /\ clients \in [Workers -> Client]

ProtocolInit ==
    /\ Init
    /\ clients = [w \in Workers |-> [generation |-> 0, leases |-> {}]]

(* What the service tells a worker of its leases, whatever generation they carry. *)
ActiveLeaseIds(w) == {l \in Leases : Active(l) /\ lease[l].worker = w}

(* The request names the generation, and carries the token, the row has now. *)
CurrentIgnoresGeneration(w) == clients[w].generation > 0
Current(w) == clients[w].generation > 0 /\ clients[w].generation = worker[w].generation

Believes(w, S) == clients' = [clients EXCEPT ![w].leases = S]

RowsStay == UNCHANGED vars

(* The answer brings new credentials; the leases believed active stay. *)
ClientEnroll(w, p, caps) ==
    /\ Enroll(w, p, caps)
    /\ clients' = [clients EXCEPT ![w].generation = worker[w].generation + 1]

(* A heartbeat that reports no change of state, or one along the edges of the row. *)
ClientHeartbeat(w) ==
    /\ Current(w) /\ Authenticated(w)
    /\ RowsStay \/ \E status \in WorkerStatuses : Heartbeat(w, status)
    /\ Believes(w, ActiveLeaseIds(w))

ClientClaim(c, l) ==
    /\ Current(c.worker) /\ c.generation = worker[c.worker].generation
    /\ ClaimCommit(c, l)
    /\ Believes(c.worker, clients[c.worker].leases \cup {l})

(* Advertising, renewing and submitting carry the credentials and leave the client's view   *)
(* alone; a renewal is a transaction of its own, which RenewCommit ends.                    *)
ClientAdvertise(w, caps) == Current(w) /\ AdvertiseCapabilities(w, caps) /\ UNCHANGED clients

ClientRenew(w, l, extend) ==
    /\ Current(w) /\ lease[l].worker = w
    /\ RenewRead(l, extend)
    /\ UNCHANGED clients

(* The service submits and never accepts. *)
ClientSubmitResult(w, l, r, passed) ==
    /\ Current(w) /\ lease[l].worker = w
    /\ SubmitResult(l, r, passed)
    /\ UNCHANGED clients

ClientDrain(w) ==
    /\ Current(w)
    /\ Drain(w)
    /\ Believes(w, ActiveLeaseIds(w))

(* cancel_lease carries no credentials: any client may cancel any lease. *)
ClientCancelLease(w, l) ==
    /\ CancelActiveLease(l, FALSE)
    /\ Believes(w, clients[w].leases \ {l})

(* reconnect: the leases come from the rows, the state of the row stays. *)
ClientReconnect(w) ==
    /\ Current(w) /\ Authenticated(w)
    /\ RowsStay
    /\ Believes(w, ActiveLeaseIds(w))

(* The process starts again with its credentials and nothing else. *)
ClientRestart(w) == RowsStay /\ Believes(w, {})

ClientNext ==
    \/ \E w \in Workers :
         \/ \E p \in Projects, caps \in SUBSET Caps : ClientEnroll(w, p, caps)
         \/ ClientHeartbeat(w) \/ ClientDrain(w) \/ ClientReconnect(w) \/ ClientRestart(w)
         \/ \E caps \in SUBSET Caps : ClientAdvertise(w, caps)
         \/ \E l \in Leases :
              \/ ClientCancelLease(w, l)
              \/ \E extend \in Extensions : ClientRenew(w, l, extend)
              \/ \E r \in Results, passed \in BOOLEAN : ClientSubmitResult(w, l, r, passed)
    \/ \E c \in claims, l \in Leases : ClientClaim(c, l)

ProtocolNext == ClientNext \/ (Next /\ UNCHANGED clients)

ProtocolSpec == ProtocolInit /\ [][ProtocolNext]_protocolVars

--------------------------------------------------------------------------------
(* A client whose credentials were replaced (its enrolment answer was lost, its token  *)
(* rotated, the worker revoked) holds no work that could still be accepted: whatever   *)
(* answers were lost, the leases it believes active are its worker's, none is newer    *)
(* than its credentials, and under old credentials each is behind the worker fence of  *)
(* accept_result.                                                                      *)
ReplacedClientHoldsNothing ==
    \A w \in Workers :
        /\ clients[w].generation <= worker[w].generation
        /\ \A l \in clients[w].leases :
              /\ lease[l].state # "none" /\ lease[l].worker = w
              /\ lease[l].generation <= clients[w].generation
              /\ clients[w].generation < worker[w].generation => ~WorkerFence(l)
================================================================================
