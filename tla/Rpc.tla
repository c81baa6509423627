-------------------------------- MODULE Rpc --------------------------------
(***************************************************************************)
(* quicklook.rpc: calls from the coordinator to one generator.  Each call  *)
(* has a WebSocket; the server runs the function in a process of a pool    *)
(* and passes on what it puts into a queue that a manager process holds.   *)
(*                                                                         *)
(* Faults: a process of the pool is killed, the manager process is lost,   *)
(* a connection breaks, and a caller gives up (its stage timed out).       *)
(* A step of a coroutine ends at its awaits.                               *)
(***************************************************************************)
EXTENDS Integers, Sequences, FiniteSets, SequencesExt

CONSTANTS
    Calls,
    Consumers,    \* calls whose function takes an item of an RpcQueue per value
    Workers,      \* rpc_process_pool_workers
    MaxYields,    \* bound: values of a call's generator function
    MaxFaults     \* bound: faults

ASSUME ConsumersAssumption == Consumers \subseteq Calls
ASSUME WorkersAssumption == Workers \in Nat \ {0}
ASSUME MaxYieldsAssumption == MaxYields \in [Calls -> Nat \ {0}]
ASSUME MaxFaultsAssumption == MaxFaults \in Nat

VARIABLES   \* of the callers
    how,        \* "run" or "iterate"
    client,     \* "idle", "validating", "failing", "receiving" or "gone"
    error,      \* an ErrorMessage was received
    got,        \* values received
    outcome     \* "pending", "returned" or "raised"

VARIABLES   \* of the connections
    connection, \* "none", "open", "closed" by the server, "lost", or "left" by the caller
    wire,       \* messages to the caller
    inputs      \* QueuePutMessages to the server

VARIABLES   \* of the server and its processes
    function,   \* what is called: a "value" or a "stream" function
    server,     \* its handler: "none", "setup", "results", "future" or "done"
    task,       \* in the pool: "none", "queued", "running", "leaving", "finished",
                \* "failed" (its future has an exception) or "dead"
    body,       \* of the function: "no", "ok" or "error"
    made,       \* values it made
    results,    \* result_queue
    queue,      \* items in the manager's queue for the function
    poolBroken, \* the ProcessPoolExecutor is broken
    manager,    \* the manager process lives
    faults

callerVars == <<how, client, error, got, outcome>>
connectionVars == <<connection, wire, inputs>>
processVars == <<function, task, body, made, results, queue>>
hostVars == <<poolBroken, manager, faults>>
vars == <<callerVars, connectionVars, processVars, server, hostVars>>

Message(type) == [type |-> type, value |-> 0]
Values == UNION {1..MaxYields[c] : c \in Calls}

Init ==
    /\ how \in [Calls -> {"run", "iterate"}]
    /\ function \in [Calls -> {"value", "stream"}]
    /\ \A c \in Consumers : function[c] = "stream" /\ how[c] = "iterate"
    /\ client = [c \in Calls |-> "idle"] /\ error = [c \in Calls |-> FALSE]
    /\ got = [c \in Calls |-> <<>>] /\ outcome = [c \in Calls |-> "pending"]
    /\ connection = [c \in Calls |-> "none"]
    /\ wire = [c \in Calls |-> <<>>] /\ inputs = [c \in Calls |-> 0]
    /\ server = [c \in Calls |-> "none"]
    /\ task = [c \in Calls |-> "none"] /\ body = [c \in Calls |-> "no"]
    /\ made = [c \in Calls |-> 0]
    /\ results = [c \in Calls |-> <<>>] /\ queue = [c \in Calls |-> 0]
    /\ poolBroken = FALSE /\ manager = TRUE /\ faults = 0

-----------------------------------------------------------------------------
(* The server's coroutine.                                                 *)

Goto(c, next) == server' = [server EXCEPT ![c] = next]

\* ws.send_bytes: it raises when the connection is known to be gone; a message in
\* a connection that just broke is lost.
Sent(c, messages) ==
    \/ /\ connection[c] = "open"
       /\ wire' = [wire EXCEPT ![c] = @ \o messages]
    \/ connection[c] \in {"lost", "left"} /\ UNCHANGED wire

SendRaises(c) == connection[c] \in {"lost", "left"} /\ UNCHANGED wire

\* The handler ends and closes its WebSocket.
Close(c) ==
    /\ Goto(c, "done")
    /\ connection' = [connection EXCEPT ![c] = IF @ = "open" THEN "closed" ELSE @]

\* Mutant: the caller is told the end of the call, not its error.
FailSilently(c, sent) ==
    /\ Sent(c, sent \o <<Message("exit")>>)
    /\ Close(c)

\* `except Exception' of create_rpc_endpoint, after what the handler had sent.
Fail(c, sent) ==
    /\ Sent(c, sent \o <<Message("error"), Message("exit")>>)
    /\ Close(c)

\* The CallMessage is here: its queues are made, the ResponseType is sent and the
\* function submitted.  A broken pool refuses every call.
Setup(c) ==
    /\ server[c] = "setup"
    /\ LET responseType == <<[type |-> function[c], value |-> 0]>> IN
         \/ /\ manager /\ ~poolBroken
            /\ Sent(c, responseType)
            /\ task' = [task EXCEPT ![c] = "queued"]
            /\ Goto(c, "results") /\ UNCHANGED connection
         \/ manager /\ poolBroken /\ Fail(c, responseType) /\ UNCHANGED task
         \/ ~manager /\ Fail(c, <<>>) /\ UNCHANGED task
         \/ manager /\ SendRaises(c) /\ Close(c) /\ UNCHANGED task
    /\ UNCHANGED <<callerVars, inputs, function, body, made, results, queue, hostVars>>

\* One round of _handle_rpc_results.  Without the manager result_queue.get raises;
\* its `finally' sends Exit before the exception becomes an ErrorMessage.
HandleResult(c) ==
    /\ server[c] = "results"
    /\ \/ /\ manager /\ results[c] # <<>>
          /\ results' = [results EXCEPT ![c] = Tail(@)]
          /\ \/ /\ Sent(c, <<Head(results[c])>>)
                /\ Goto(c, IF Head(results[c]).type = "exit" THEN "future" ELSE "results")
                /\ UNCHANGED connection
             \/ Head(results[c]).type # "exit" /\ SendRaises(c) /\ Close(c)
       \/ ~manager /\ Fail(c, <<Message("exit")>>) /\ UNCHANGED results
    /\ UNCHANGED <<callerVars, inputs, function, task, body, made, queue, hostVars>>

\* future.result(): its exception comes after Exit, when the caller has left.
AwaitFuture(c) ==
    /\ server[c] = "future"
    /\ \/ task[c] = "finished" /\ Close(c) /\ UNCHANGED wire
       \/ task[c] \in {"failed", "dead"} /\ Fail(c, <<>>)
    /\ UNCHANGED <<callerVars, inputs, processVars, hostVars>>

\* _message_dispatcher runs until the results are handled or the connection ends.
Dispatch(c) ==
    /\ server[c] = "results" /\ connection[c] = "open" /\ manager
    /\ inputs[c] > 0
    /\ inputs' = [inputs EXCEPT ![c] = @ - 1]
    /\ queue' = [queue EXCEPT ![c] = @ + 1]
    /\ UNCHANGED <<callerVars, connection, wire, server, function, task, body, made,
                   results, hostVars>>

-----------------------------------------------------------------------------
(* The process pool.                                                       *)

RunTask(c) ==
    /\ task[c] = "queued" /\ ~poolBroken
    /\ Cardinality({d \in Calls : task[d] \in {"running", "leaving"}}) < Workers
    /\ task' = [task EXCEPT ![c] = "running"]
    /\ UNCHANGED <<callerVars, connectionVars, function, body, made, results, queue,
                   server, hostVars>>

Put(c, message) == results' = [results EXCEPT ![c] = Append(@, message)]

\* Mutant: the item is read but stays in the queue.
YieldPeeking(c) ==
    /\ task[c] = "running" /\ function[c] = "stream" /\ manager
    /\ made[c] < MaxYields[c]
    /\ c \in Consumers => queue[c] > 0
    /\ made' = [made EXCEPT ![c] = @ + 1]
    /\ Put(c, [type |-> "yield", value |-> made'[c]])
    /\ UNCHANGED <<callerVars, connectionVars, function, task, body, queue, server,
                   hostVars>>

Yield(c) ==
    /\ task[c] = "running" /\ function[c] = "stream" /\ manager
    /\ made[c] < MaxYields[c]
    /\ c \in Consumers => queue[c] > 0
    /\ queue' = [queue EXCEPT ![c] = IF c \in Consumers THEN @ - 1 ELSE @]
    /\ made' = [made EXCEPT ![c] = @ + 1]
    /\ Put(c, [type |-> "yield", value |-> made'[c]])
    /\ UNCHANGED <<callerVars, connectionVars, function, task, body, server, hostVars>>

\* The function returns, or its generator is exhausted.
Finish(c) ==
    /\ task[c] = "running" /\ manager
    /\ c \in Consumers => made[c] = MaxYields[c]
    /\ IF function[c] = "value"
       THEN /\ made' = [made EXCEPT ![c] = 1]
            /\ Put(c, [type |-> "return", value |-> 1])
       ELSE UNCHANGED <<made, results>>
    /\ body' = [body EXCEPT ![c] = "ok"]
    /\ task' = [task EXCEPT ![c] = "leaving"]
    /\ UNCHANGED <<callerVars, connectionVars, function, queue, server, hostVars>>

Throw(c) ==
    /\ task[c] = "running" /\ manager
    /\ c \in Consumers => made[c] = MaxYields[c]
    /\ Put(c, Message("error"))
    /\ body' = [body EXCEPT ![c] = "error"]
    /\ task' = [task EXCEPT ![c] = "leaving"]
    /\ UNCHANGED <<callerVars, connectionVars, function, made, queue, server, hostVars>>

\* Mutant: Exit is put only when the function raised nothing.
PutExitOnSuccess(c) ==
    /\ task[c] = "leaving" /\ manager
    /\ IF body[c] = "ok" THEN Put(c, Message("exit")) ELSE UNCHANGED results
    /\ task' = [task EXCEPT ![c] = "finished"]
    /\ UNCHANGED <<callerVars, connectionVars, function, body, made, queue, server,
                   hostVars>>

\* The `finally' of _execute_function_in_process.
PutExit(c) ==
    /\ task[c] = "leaving" /\ manager
    /\ Put(c, Message("exit"))
    /\ task' = [task EXCEPT ![c] = "finished"]
    /\ UNCHANGED <<callerVars, connectionVars, function, body, made, queue, server,
                   hostVars>>

\* Without the manager every put of the process raises.
PutRaises(c) ==
    /\ task[c] \in {"running", "leaving"} /\ ~manager
    /\ task' = [task EXCEPT ![c] = "failed"]
    /\ UNCHANGED <<callerVars, connectionVars, function, body, made, results, queue,
                   server, hostVars>>

-----------------------------------------------------------------------------
(* The caller.                                                             *)

\* It connects, sends the CallMessage and starts to forward its RpcQueue.
Connect(c) ==
    /\ client[c] = "idle"
    /\ client' = [client EXCEPT ![c] = "validating"]
    /\ connection' = [connection EXCEPT ![c] = "open"]
    /\ inputs' = [inputs EXCEPT ![c] = IF c \in Consumers THEN MaxYields[c] ELSE 0]
    /\ Goto(c, "setup")
    /\ UNCHANGED <<how, error, got, outcome, wire, processVars, hostVars>>

\* The `finally' of run and iterate closes the connection.
Leave(c, result) ==
    /\ outcome' = [outcome EXCEPT ![c] = result]
    /\ client' = [client EXCEPT ![c] = "gone"]
    /\ error' = [error EXCEPT ![c] = FALSE]
    /\ connection' = [connection EXCEPT ![c] = "left"]
    /\ wire' = [wire EXCEPT ![c] = <<>>]
    /\ inputs' = [inputs EXCEPT ![c] = 0]

\* After Exit, or when the server has closed the connection.
Conclude(c) ==
    Leave(c, IF error[c] \/ (how[c] = "run" /\ got[c] = <<>>) THEN "raised" ELSE "returned")

Read(c) == wire' = [wire EXCEPT ![c] = Tail(@)] /\ UNCHANGED inputs

Expected(c) == IF how[c] = "run" THEN "value" ELSE "stream"

Validate(c, type) ==
    /\ client[c] = "validating"
    /\ CASE type = "error" ->
              /\ client' = [client EXCEPT ![c] = "failing"]
              /\ Read(c) /\ UNCHANGED <<error, outcome, connection>>
         [] type = Expected(c) ->
              /\ client' = [client EXCEPT ![c] = "receiving"]
              /\ Read(c) /\ UNCHANGED <<error, outcome, connection>>
         [] OTHER -> Leave(c, "raised")
    /\ UNCHANGED got

ReceiveResult(c, m) ==
    /\ client[c] = "receiving"
    /\ CASE m.type \in {"yield", "return"} ->
              /\ got' = [got EXCEPT ![c] = Append(@, m.value)]
              /\ Read(c) /\ UNCHANGED <<client, error, outcome, connection>>
         [] m.type = "error" ->
              /\ error' = [error EXCEPT ![c] = TRUE]
              /\ Read(c) /\ UNCHANGED <<client, got, outcome, connection>>
         [] m.type = "exit" -> Conclude(c) /\ UNCHANGED got

Receive(c) ==
    /\ wire[c] # <<>>
    /\ LET m == Head(wire[c]) IN
         \/ Validate(c, m.type)
         \/ ReceiveResult(c, m)
         \/ /\ client[c] = "failing" /\ m.type = "exit"
            /\ Leave(c, "raised") /\ UNCHANGED got
    /\ UNCHANGED <<how, processVars, server, hostVars>>

\* The stream of messages ends: normally if the server closed, else with an exception.
EndOfMessages(c) ==
    /\ client[c] \in {"validating", "failing", "receiving"}
    /\ \/ connection[c] = "lost" /\ Leave(c, "raised")
       \/ /\ connection[c] = "closed" /\ wire[c] = <<>>
          /\ IF client[c] = "receiving" THEN Conclude(c) ELSE Leave(c, "raised")
    /\ UNCHANGED <<how, got, processVars, server, hostVars>>

-----------------------------------------------------------------------------
(* Faults.                                                                 *)

Fault == faults < MaxFaults /\ faults' = faults + 1

\* A process of the pool is killed: the executor ends all others and fails the
\* futures of what it has not finished, or not noticed to be finished.
Kill ==
    /\ Fault /\ ~poolBroken
    /\ poolBroken' = TRUE
    /\ \E unnoticed \in SUBSET {c \in Calls : task[c] = "finished" /\ server[c] # "done"} :
         task' = [c \in Calls |->
             IF c \in unnoticed \/ task[c] \in {"queued", "running", "leaving"}
             THEN "dead" ELSE task[c]]
    /\ UNCHANGED <<callerVars, connectionVars, function, body, made, results, queue,
                   server, manager>>

\* The queues are gone with the process that holds them.
LoseManager ==
    /\ Fault /\ manager /\ manager' = FALSE
    /\ results' = [c \in Calls |-> <<>>] /\ queue' = [c \in Calls |-> 0]
    /\ UNCHANGED <<callerVars, connectionVars, function, task, body, made, server,
                   poolBroken>>

Disconnect(c) ==
    /\ Fault /\ connection[c] = "open"
    /\ connection' = [connection EXCEPT ![c] = "lost"]
    /\ \E n \in 0..Len(wire[c]) : wire' = [wire EXCEPT ![c] = SubSeq(@, 1, n)]
    /\ inputs' = [inputs EXCEPT ![c] = 0]
    /\ UNCHANGED <<callerVars, processVars, server, poolBroken, manager>>

GiveUp(c) ==
    /\ Fault /\ client[c] \in {"validating", "failing", "receiving"}
    /\ Leave(c, "raised")
    /\ UNCHANGED <<how, got, processVars, server, poolBroken, manager>>

ServerStep(c) ==
    \/ Setup(c) \/ HandleResult(c) \/ AwaitFuture(c) \/ Dispatch(c)

ProcessStep(c) == RunTask(c) \/ Finish(c) \/ Throw(c) \/ PutExit(c) \/ PutRaises(c)
CallerStep(c) == Receive(c) \/ EndOfMessages(c)

Next ==
    \/ \E c \in Calls :
         \/ Connect(c) \/ CallerStep(c) \/ ServerStep(c) \/ ProcessStep(c) \/ Yield(c)
         \/ Disconnect(c) \/ GiveUp(c)
    \/ Kill \/ LoseManager

Spec == Init /\ [][Next]_vars

\* The event loops run, and a function ends unless it waits for an item.
Fairness ==
    \A c \in Calls :
        /\ WF_vars(ServerStep(c)) /\ WF_vars(CallerStep(c))
        /\ WF_vars(ProcessStep(c)) /\ WF_vars(Yield(c))

FairSpec == Spec /\ Fairness

-----------------------------------------------------------------------------
Messages == [type : {"value", "stream", "yield", "return", "error", "exit"},
             value : {0} \union Values]

\* An item of an RpcQueue is in one place, and is consumed once.
TypeOK ==
    /\ client \in [Calls -> {"idle", "validating", "failing", "receiving", "gone"}]
    /\ outcome \in [Calls -> {"pending", "returned", "raised"}]
    /\ connection \in [Calls -> {"none", "open", "closed", "lost", "left"}]
    /\ error \in [Calls -> BOOLEAN]
    /\ \A c \in Calls :
         /\ made[c] \in 0..MaxYields[c]
         /\ inputs[c] \in 0..MaxYields[c] /\ queue[c] \in 0..MaxYields[c]
         /\ c \in Consumers => inputs[c] + queue[c] + made[c] <= MaxYields[c]
         /\ got[c] \in Seq(Values)
         /\ wire[c] \in Seq(Messages) /\ results[c] \in Seq(Messages)
    /\ server \in [Calls -> {"none", "setup", "results", "future", "done"}]
    /\ task \in [Calls -> {"none", "queued", "running", "leaving", "finished", "failed",
                           "dead"}]
    /\ body \in [Calls -> {"no", "ok", "error"}]
    /\ poolBroken \in BOOLEAN /\ manager \in BOOLEAN /\ faults \in 0..MaxFaults

\* rpc keeps the promise of RpcCall: in order, complete unless an exception says
\* otherwise, whatever process, connection or caller fails in between.
Abstract == INSTANCE RpcCall WITH
    produced <- [c \in Calls |-> [i \in 1..made[c] |-> i]],
    delivered <- got,
    ended <- body,
    intact <- manager
ImplementsRpcCall == Abstract!Spec

\* A call that was made ends, unless its function died with the pool: the server
\* then waits for an Exit that nobody puts, and so does the caller.  A worker that
\* waits for the items of a caller that left holds up the calls behind it.
Stranded(c) ==
    /\ task[c] = "dead" /\ server[c] = "results"
    /\ \A i \in DOMAIN results[c] : results[c][i].type # "exit"

Waiting(c) == c \in Consumers /\ task[c] = "running" /\ queue[c] = 0 /\ made[c] < MaxYields[c]
HeldUp(c) == task[c] = "queued" /\ \E d \in Calls : Waiting(d)
CallEnds == \A c \in Calls :
    client[c] # "idle" ~> outcome[c] # "pending" \/ Stranded(c) \/ HeldUp(c)

\* However a call went, the server lets go of it, or still waits as above.
ServerLetsGo == \A c \in Calls :
    server[c] # "none" ~> server[c] = "done" \/ Stranded(c) \/ HeldUp(c) \/ Waiting(c)

\* Neither side of a call waits for ever, but for these reasons.
CallsEnd == CallEnds /\ ServerLetsGo
=============================================================================
