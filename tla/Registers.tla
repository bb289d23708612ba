----------------------------- MODULE Registers -----------------------------
(***************************************************************************)
(* The configuration of a node over the network: the services              *)
(* uavcan.register.Access and uavcan.node.ExecuteCommand over a parameter  *)
(* storage with a volatile and a persistent copy.  Clients work through    *)
(* steps: each writes a register, stores, reads back, and has the node     *)
(* restarted; an operator wants a factory reset.  Requests and responses   *)
(* may be lost or late, a client repeats a request that is not answered,   *)
(* and the node may lose its power between any two steps.  CAN keeps the   *)
(* frames of a session in order, hence the queues.                         *)
(***************************************************************************)
EXTENDS Integers, Sequences, SequencesExt

CONSTANTS Client,       \* those that configure a register each
          Operator,     \* the one that resets
          Register,     \* integer registers that hold port-IDs
          RegisterOf,   \* the register of each client
          Default, Wish,    \* the value of a new node, and what clients write
          MaxSends,     \* bound on the requests of a client
          MaxLost,      \* bound on lost requests and responses
          MaxFaults     \* bound on power losses and on failures of the storage

ASSUME RegistersAssumption ==
    /\ Operator \notin Client
    /\ RegisterOf \in [Client -> Register]
    /\ \A c, d \in Client : RegisterOf[c] = RegisterOf[d] => c = d
    /\ Default # Wish /\ MaxSends \in Nat /\ MaxLost \in Nat /\ MaxFaults \in Nat

VARIABLES
    ram, flash,     \* the storage: what paramsGet... sees, and what paramsSave wrote
    port_id,        \* what publishers and subscribers took over when the node started
    ports_updated,  \* the port list is to be published
    restart,        \* platformSpecificRequestRestart was called
    requests,       \* [user -> requests on their way]
    responses,      \* [user -> responses on their way]
    user,           \* [user -> what it is doing]
    verified,       \* history: the node showed the client its value after a store
    booted,         \* history: and has started since then
    resetLasts,     \* history: the node was reset, and nothing was written since
    lost, faults

node == <<ram, flash, port_id, ports_updated, restart>>
history == <<verified, booted, resetLasts>>
vars == <<node, requests, responses, user, history, lost, faults>>

User == Client \cup {Operator}
Value == {Default, Wish}
Tid == 0 .. MaxSends

Request ==
    [op : {"access"}, register : Register, tag : {"empty", "natural16", "natural8", "string"},
     value : Value, tid : Tid]
    \cup [op : {"store", "reset", "restart"}, tid : Tid]

(* The status of a command is TRUE for success.                            *)
Response == [tid : Tid, result : Value \cup BOOLEAN]

TypeOK ==
    /\ ram \in [Register -> Value] /\ flash \in [Register -> Value]
    /\ port_id \in [Register -> Value]
    /\ ports_updated \in BOOLEAN /\ restart \in BOOLEAN
    /\ requests \in [User -> Seq(Request)] /\ responses \in [User -> Seq(Response)]
    /\ user \in [User -> [step : {"write", "store", "verify", "restart", "reset", "done"},
                          sends : 0 .. MaxSends, waiting : BOOLEAN]]
    /\ verified \in [Client -> BOOLEAN] /\ booted \in [Client -> BOOLEAN]
    /\ resetLasts \in BOOLEAN
    /\ lost \in 0 .. MaxLost /\ faults \in 0 .. MaxFaults

(* A node as delivered.                                                    *)
Init ==
    /\ ram = [r \in Register |-> Default] /\ flash = ram /\ port_id = ram
    /\ ports_updated = FALSE /\ restart = FALSE
    /\ requests = [u \in User |-> <<>>] /\ responses = [u \in User |-> <<>>]
    /\ user = [u \in User |-> [step |-> IF u = Operator THEN "reset" ELSE "write",
                               sends |-> 0, waiting |-> FALSE]]
    /\ verified = [c \in Client |-> FALSE] /\ booted = [c \in Client |-> FALSE]
    /\ resetLasts = FALSE
    /\ lost = 0 /\ faults = 0

-----------------------------------------------------------------------------
(* The services                                                            *)

Asked(u) == Head(requests[u])

(* The response carries the transfer-ID of the request.                    *)
Respond(u, result) ==
    /\ responses' = [responses EXCEPT ![u] = Append(@, [tid |-> Asked(u).tid, result |-> result])]
    /\ requests' = [requests EXCEPT ![u] = Tail(@)]

(* All registers are integers, so a string is not written; a natural16     *)
(* counts as the update of a port, a natural8 (or 32) does not.  The       *)
(* storage may refuse a value.                                             *)
writeParam(q) ==
    IF q.tag \in {"natural16", "natural8"}
      THEN /\ ram' \in {ram, [ram EXCEPT ![q.register] = q.value]}
           /\ ports_updated' = (ports_updated \/ q.tag = "natural16")
      ELSE UNCHANGED <<ram, ports_updated>>

(* RegisterAccessRequest::callback: the register is read after the write,  *)
(* whatever became of that.                                                *)
Access(u) ==
    /\ requests[u] # <<>> /\ Asked(u).op = "access"
    /\ writeParam(Asked(u))
    /\ Respond(u, ram'[Asked(u).register])
    /\ resetLasts' = (resetLasts /\ Asked(u).tag = "empty")
    /\ IF Asked(u).tag = "empty" /\ ram[Asked(u).register] = Wish
         THEN /\ verified' = [verified EXCEPT ![u] = TRUE]
              /\ booted' = [booted EXCEPT ![u] = FALSE]
         ELSE UNCHANGED <<verified, booted>>
    /\ UNCHANGED <<flash, port_id, restart, user, lost, faults>>

(* paramsSave succeeds, or fails and leaves the old data.                  *)
paramsSave(data, ok) ==
    IF ok THEN flash' = data /\ UNCHANGED faults
          ELSE faults < MaxFaults /\ faults' = faults + 1 /\ UNCHANGED flash

(* Mutant: the outcome is not looked at.                                   *)
StoreUnchecked(u) ==
    /\ \E ok \in BOOLEAN : paramsSave(ram, ok)
    /\ Respond(u, TRUE)
    /\ UNCHANGED <<ram, restart, history>>

StorePersistentStates(u) ==
    /\ \E ok \in BOOLEAN : paramsSave(ram, ok) /\ Respond(u, ok)
    /\ UNCHANGED <<ram, restart, history>>

(* Mutant: the parameters are saved before they are reset.                 *)
FactoryResetSavingFirst(u) ==
    /\ ram' = [r \in Register |-> Default]
    /\ \E ok \in BOOLEAN : paramsSave(ram, ok) /\ Respond(u, ok)
    /\ verified' = [c \in Client |-> FALSE]
    /\ resetLasts' = TRUE
    /\ UNCHANGED <<restart, booted>>

(* paramsResetToDefault, then paramsSave.                                  *)
FactoryReset(u) ==
    /\ ram' = [r \in Register |-> Default]
    /\ \E ok \in BOOLEAN : paramsSave(ram', ok) /\ Respond(u, ok)
    /\ verified' = [c \in Client |-> FALSE]
    /\ resetLasts' = TRUE
    /\ UNCHANGED <<restart, booted>>

(* The application may not be able to restart at the moment.               *)
RequestRestart(u) ==
    /\ \E ok \in BOOLEAN : Respond(u, ok) /\ restart' = (restart \/ ok)
    /\ UNCHANGED <<ram, flash, faults, history>>

(* ExecuteCommandSubscriber::callback                                      *)
ExecuteCommand(u) ==
    /\ requests[u] # <<>>
    /\ \/ Asked(u).op = "store" /\ StorePersistentStates(u)
       \/ Asked(u).op = "reset" /\ FactoryReset(u)
       \/ Asked(u).op = "restart" /\ RequestRestart(u)
    /\ UNCHANGED <<port_id, ports_updated, user, lost>>

(* PortListPublisher::publish                                              *)
PublishPortList ==
    /\ ports_updated /\ ports_updated' = FALSE
    /\ UNCHANGED <<ram, flash, port_id, restart, requests, responses, user, history, lost, faults>>

-----------------------------------------------------------------------------
(* The platform, the network and the clients                               *)

(* paramsLoad, and the init functions that read their port-IDs.            *)
Boot ==
    /\ ram' = flash /\ port_id' = flash
    /\ ports_updated' = FALSE /\ restart' = FALSE
    /\ booted' = [c \in Client |-> verified[c]]
    /\ UNCHANGED <<flash, requests, responses, user, verified, resetLasts, lost>>

Restart == restart /\ Boot /\ UNCHANGED faults

PowerLoss == faults < MaxFaults /\ Boot /\ faults' = faults + 1

LoseRequest(u) ==
    /\ lost < MaxLost /\ lost' = lost + 1
    /\ \E i \in DOMAIN requests[u] : requests' = [requests EXCEPT ![u] = RemoveAt(@, i)]
    /\ UNCHANGED <<node, responses, user, history, faults>>

(* Also when the TX queue is full or the node restarts.                    *)
LoseResponse(u) ==
    /\ lost < MaxLost /\ lost' = lost + 1
    /\ \E i \in DOMAIN responses[u] : responses' = [responses EXCEPT ![u] = RemoveAt(@, i)]
    /\ UNCHANGED <<node, requests, user, history, faults>>

RequestOf(u) ==
    LET tid == user[u].sends + 1
        access(tag) == [op |-> "access", register |-> RegisterOf[u], tag |-> tag,
                        value |-> Wish, tid |-> tid]
    IN  CASE user[u].step = "write" ->
                {access(tag) : tag \in {"natural16", "natural8", "string"}}
          [] user[u].step = "verify" -> {access("empty")}
          [] OTHER -> {[op |-> user[u].step, tid |-> tid]}

(* A first request, or another after a timeout.                            *)
Send(u) ==
    /\ user[u].step # "done" /\ user[u].sends < MaxSends
    /\ \E q \in RequestOf(u) : requests' = [requests EXCEPT ![u] = Append(@, q)]
    /\ user' = [user EXCEPT ![u].sends = @ + 1, ![u].waiting = TRUE]
    /\ UNCHANGED <<node, responses, history, lost, faults>>

StepAfter(step, result) ==
    CASE step = "write" /\ result = Wish   -> "store"
      [] step = "store" /\ result = TRUE   -> "verify"
      [] step = "verify" /\ result = Wish  -> "restart"
      [] step = "verify" /\ result # Wish  -> "write"
      [] step = "restart" /\ result = TRUE -> "done"
      [] step = "reset" /\ result = TRUE   -> "done"
      [] OTHER                             -> step

(* A late response to an earlier request is dropped.                       *)
Answer(s, a) ==
    IF s.waiting /\ a.tid = s.sends
      THEN [s EXCEPT !.step = StepAfter(s.step, a.result), !.waiting = FALSE]
      ELSE s

Answered(u) ==
    /\ responses[u] # <<>>
    /\ user' = [user EXCEPT ![u] = Answer(user[u], Head(responses[u]))]
    /\ responses' = [responses EXCEPT ![u] = Tail(@)]
    /\ UNCHANGED <<node, requests, history, lost, faults>>

Next ==
    \/ \E u \in User : \/ Access(u) \/ ExecuteCommand(u)
                       \/ LoseRequest(u) \/ LoseResponse(u) \/ Send(u) \/ Answered(u)
    \/ PublishPortList \/ Restart \/ PowerLoss

Spec == Init /\ [][Next]_vars

-----------------------------------------------------------------------------
(***************************************************************************)
(* A client that was shown its value after a store that succeeded can rely *)
(* on it: until the next factory reset the value is in the persistent      *)
(* copy, and the node uses it from its next start on, whatever requests    *)
(* were repeated, answers lost, and whenever the power failed.             *)
(***************************************************************************)
ConfigurationLasts ==
    \A c \in Client :
        user[c].step \in {"restart", "done"} /\ verified[c] =>
            /\ flash[RegisterOf[c]] = Wish
            /\ booted[c] => port_id[RegisterOf[c]] = Wish

(***************************************************************************)
(* An operator whose factory reset succeeded can rely on it: as long as    *)
(* nothing is written, the registers have their defaults, across restarts. *)
(***************************************************************************)
ResetLasts ==
    user[Operator].step = "done" /\ resetLasts =>
        \A r \in Register : ram[r] = Default /\ flash[r] = Default
=============================================================================
