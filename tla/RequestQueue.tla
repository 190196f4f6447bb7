---------------------------- MODULE RequestQueue ----------------------------
(***************************************************************************)
(* How ApplePS2Controller takes requests from the drivers and disposes of  *)
(* them: submitRequest puts a request on _requestQueue and signals the     *)
(* work loop; submitRequestAndBlock enters the work loop's gate, first     *)
(* works off the queue and then its own request; processRequest ends every *)
(* request by its completion routine or by freeing it.  Sleep and wake     *)
(* run inside the gate too and the drivers they call submit blocking       *)
(* requests from there, the gate being recursive.                          *)
(*                                                                         *)
(* What a request's commands do is the subject of ControllerPort; here it  *)
(* succeeds or fails, and always fails while _hardwareOffline is set.      *)
(***************************************************************************)
EXTENDS Naturals, Sequences, FiniteSets, SequencesExt

CONSTANTS
    Completion,     \* submitRequest with a completion routine, which frees
    Forget,         \* submitRequest without one: "fire-and-forget"
    OnStack,        \* TPS2Request on the caller's stack, submitRequestAndBlock
    Legacy,         \* allocateRequest, then submitRequestAndBlock
    MaxSleeps       \* bound: how often the machine goes to sleep

Async == Completion \cup Forget
Blocking == OnStack \cup Legacy
Request == Async \cup Blocking

ASSUME KindsAssumption ==
    /\ Completion \cap Forget = {} /\ OnStack \cap Legacy = {}
    /\ Async \cap Blocking = {}
    /\ {"event", "sleep", "wake"} \cap Request = {}
ASSUME MaxSleepsAssumption == MaxSleeps \in Nat

VARIABLES
    requestQueue,   \* _requestQueue
    localQueue,     \* localQueue of the processRequestQueue that is running
    unsignalled,    \* submitters between queue_enter and interruptOccurred
    signalled,      \* _interruptSourceQueue has been signalled
    gate,           \* who is inside the gate, innermost last
    offline,        \* _hardwareOffline
    sleeps,
    stopped,        \* ApplePS2Controller::stop has run
    submitted,      \* history: asynchronous requests in order of submission
    processed,      \* history: requests in the order of processRequest
    result,         \* result[r]: how processRequest ended
    frees,          \* frees[r]: how often the controller released r's memory
    freedAgain,     \* history: requests that their driver released, too
    ahead           \* ahead[r]: requests queued when r entered the gate

vars == <<requestQueue, localQueue, unsignalled, signalled, gate, offline, sleeps,
          stopped, submitted, processed, result, frees, freedAgain, ahead>>

Init ==
    /\ requestQueue = <<>> /\ localQueue = <<>>
    /\ unsignalled = {} /\ signalled = FALSE
    /\ gate = <<>> /\ offline = FALSE /\ sleeps = 0 /\ stopped = FALSE
    /\ submitted = <<>> /\ processed = <<>>
    /\ result = [r \in Request |-> "none"]
    /\ frees = [r \in Request |-> 0] /\ freedAgain = {}
    /\ ahead = [r \in Request |-> {}]

New(r) == r \notin ToSet(submitted) /\ r \notin ToSet(gate) /\ result[r] = "none"

-----------------------------------------------------------------------------
(* submitRequest, from any thread and from completion routines. *)
Submit(r) ==
    /\ ~stopped /\ New(r)
    /\ requestQueue' = Append(requestQueue, r)
    /\ submitted' = Append(submitted, r)
    /\ unsignalled' = unsignalled \cup {r}
    /\ UNCHANGED <<localQueue, signalled, gate, offline, sleeps, stopped, processed,
                   result, frees, freedAgain, ahead>>

SignalQueue(r) ==
    /\ r \in unsignalled /\ ~stopped
    /\ unsignalled' = unsignalled \ {r}
    /\ signalled' = TRUE
    /\ UNCHANGED <<requestQueue, localQueue, gate, offline, sleeps, stopped, submitted,
                   processed, result, frees, freedAgain, ahead>>

-----------------------------------------------------------------------------
\* Mutant: one request is served for each signal.
TransferFirst ==
    IF requestQueue = <<>>
    THEN localQueue' = <<>> /\ UNCHANGED requestQueue
    ELSE localQueue' = <<Head(requestQueue)>> /\ requestQueue' = Tail(requestQueue)

(* processRequestQueue begins: all that is queued moves to a local queue.  *)
TransferQueue == localQueue' = requestQueue /\ requestQueue' = <<>>

(* The work loop serves its event source. *)
ServeQueue ==
    /\ signalled /\ gate = <<>> /\ ~stopped
    /\ signalled' = FALSE
    /\ gate' = <<"event">>
    /\ TransferQueue
    /\ UNCHANGED <<unsignalled, offline, sleeps, stopped, submitted, processed, result,
                   frees, freedAgain, ahead>>

\* Mutant: submitRequestAndBlock does not go through the command gate.
EnterUngated(r) ==
    /\ ~stopped /\ New(r)
    /\ gate' = Append(gate, r)
    /\ ahead' = [ahead EXCEPT ![r] = ToSet(requestQueue)]
    /\ TransferQueue
    /\ UNCHANGED <<unsignalled, signalled, offline, sleeps, stopped, submitted,
                   processed, result, frees, freedAgain>>

(* submitRequestAndBlock: the caller waits for the gate, or is inside it   *)
(* already as the driver called by a power change.                         *)
EnterGate(r) ==
    /\ ~stopped /\ New(r)
    /\ gate \in {<<>>, <<"sleep">>, <<"wake">>}
    /\ gate' = Append(gate, r)
    /\ ahead' = [ahead EXCEPT ![r] = ToSet(requestQueue)]
    /\ TransferQueue
    /\ UNCHANGED <<unsignalled, signalled, offline, sleeps, stopped, submitted,
                   processed, result, frees, freedAgain>>

(* processRequest(r), the offline case and the disposal included. *)
Outcomes == IF offline THEN {"failed"} ELSE {"ok", "failed"}

Frees(r) == frees' = [frees EXCEPT ![r] = IF r \in OnStack THEN @ ELSE @ + 1]

ProcessRequest(r) ==
    /\ processed' = Append(processed, r)
    /\ \E o \in Outcomes : result' = [result EXCEPT ![r] = o]
    /\ Frees(r)

ProcessQueued ==
    /\ gate # <<>> /\ localQueue # <<>>
    /\ ProcessRequest(Head(localQueue))
    /\ localQueue' = Tail(localQueue)
    /\ UNCHANGED <<requestQueue, unsignalled, signalled, gate, offline, sleeps, stopped,
                   submitted, freedAgain, ahead>>

\* Mutant: submitRequestAndBlock does not work off the queue first.
ProcessOwnAtOnce ==
    /\ gate # <<>> /\ Last(gate) \in Blocking
    /\ ProcessRequest(Last(gate))
    /\ gate' = Front(gate)
    /\ UNCHANGED <<requestQueue, localQueue, unsignalled, signalled, offline, sleeps,
                   stopped, submitted, freedAgain, ahead>>

ProcessOwn ==
    /\ gate # <<>> /\ Last(gate) \in Blocking
    /\ localQueue = <<>>
    /\ ProcessRequest(Last(gate))
    /\ gate' = Front(gate)
    /\ UNCHANGED <<requestQueue, localQueue, unsignalled, signalled, offline, sleeps,
                   stopped, submitted, freedAgain, ahead>>

QueueServed ==
    /\ gate = <<"event">> /\ localQueue = <<>>
    /\ gate' = <<>>
    /\ UNCHANGED <<requestQueue, localQueue, unsignalled, signalled, offline, sleeps,
                   stopped, submitted, processed, result, frees, freedAgain, ahead>>

(* A driver that allocated the request, submitted it and waited for it     *)
(* frees it when the call returns, as the header asks it to.               *)
CallerFrees(r) ==
    /\ result[r] # "none" /\ r \notin ToSet(gate) /\ r \notin freedAgain
    /\ freedAgain' = freedAgain \cup {r}
    /\ UNCHANGED <<requestQueue, localQueue, unsignalled, signalled, gate, offline,
                   sleeps, stopped, submitted, processed, result, frees, ahead>>

-----------------------------------------------------------------------------
(* setPowerStateGated as far as requests see it: the drivers are called    *)
(* before _hardwareOffline is set, and after it is cleared.                *)
SleepBegin ==
    /\ gate = <<>> /\ ~offline /\ ~stopped /\ sleeps < MaxSleeps
    /\ gate' = <<"sleep">>
    /\ sleeps' = sleeps + 1
    /\ UNCHANGED <<requestQueue, localQueue, unsignalled, signalled, offline, stopped,
                   submitted, processed, result, frees, freedAgain, ahead>>

SleepEnd ==
    /\ gate = <<"sleep">> /\ localQueue = <<>>
    /\ offline' = TRUE
    /\ gate' = <<>>
    /\ UNCHANGED <<requestQueue, localQueue, unsignalled, signalled, sleeps, stopped,
                   submitted, processed, result, frees, freedAgain, ahead>>

WakeBegin ==
    /\ gate = <<>> /\ offline /\ ~stopped
    /\ offline' = FALSE
    /\ gate' = <<"wake">>
    /\ UNCHANGED <<requestQueue, localQueue, unsignalled, signalled, sleeps, stopped,
                   submitted, processed, result, frees, freedAgain, ahead>>

WakeEnd ==
    /\ gate = <<"wake">> /\ localQueue = <<>>
    /\ gate' = <<>>
    /\ UNCHANGED <<requestQueue, localQueue, unsignalled, signalled, offline, sleeps,
                   stopped, submitted, processed, result, frees, freedAgain, ahead>>

\* Mutant: the lock is freed, the queue is not worked off.
StopForgets ==
    /\ gate = <<>> /\ ~stopped
    /\ stopped' = TRUE /\ offline' = TRUE
    /\ UNCHANGED <<requestQueue, localQueue, unsignalled, signalled, gate, sleeps, submitted,
                   processed, result, frees, freedAgain, ahead>>

(* stop(): the drivers have uninstalled themselves, as it asserts, so      *)
(* nobody is inside the gate or submits any more.  The queue need not be   *)
(* empty, nor its last request signalled: the signal has nowhere to go,    *)
(* and stop() itself works the queue off, every request of it failing.     *)
Stop ==
    /\ gate = <<>> /\ ~stopped
    /\ stopped' = TRUE /\ offline' = TRUE
    /\ requestQueue' = <<>>
    /\ processed' = processed \o requestQueue
    /\ result' = [r \in Request |->
                    IF r \in ToSet(requestQueue) THEN "failed" ELSE result[r]]
    /\ frees' = [r \in Request |->
                    IF r \in ToSet(requestQueue) THEN frees[r] + 1 ELSE frees[r]]
    /\ UNCHANGED <<localQueue, unsignalled, signalled, gate, sleeps, submitted, freedAgain, ahead>>

-----------------------------------------------------------------------------
WorkLoop == ServeQueue \/ ProcessQueued \/ ProcessOwn \/ QueueServed
PowerEnds == SleepEnd \/ WakeBegin \/ WakeEnd

Next ==
    \/ \E r \in Async : Submit(r) \/ SignalQueue(r)
    \/ \E r \in Blocking : EnterGate(r)
    \/ \E r \in Legacy : CallerFrees(r)
    \/ WorkLoop
    \/ SleepBegin \/ PowerEnds \/ Stop

Spec == Init /\ [][Next]_vars

(* Submitters run on, and so does the work loop.  A power change that has  *)
(* begun ends; the machine need not wake up.                               *)
FairSpec ==
    /\ Spec
    /\ \A r \in Async : WF_vars(SignalQueue(r))
    /\ WF_vars(WorkLoop) /\ WF_vars(SleepEnd \/ WakeEnd)

-----------------------------------------------------------------------------
TypeOK ==
    /\ requestQueue \in Seq(Async) /\ localQueue \in Seq(Async)
    /\ unsignalled \subseteq Async /\ signalled \in BOOLEAN
    /\ gate \in Seq(Blocking \cup {"event", "sleep", "wake"}) /\ Len(gate) <= 2
    /\ offline \in BOOLEAN /\ stopped \in BOOLEAN /\ sleeps \in 0 .. MaxSleeps
    /\ submitted \in Seq(Async) /\ processed \in Seq(Request)
    /\ result \in [Request -> {"none", "ok", "failed"}]
    /\ frees \in [Request -> 0 .. 1] /\ freedAgain \subseteq Legacy
    /\ ahead \in [Request -> SUBSET Async]

(* Asynchronous requests are processed once each and in the order of their *)
(* submission, whoever works off the queue: those that wait are the last   *)
(* submitted, and place[i] is when the i-th of the others was processed.   *)
Queued == localQueue \o requestQueue
Done == Len(submitted) - Len(Queued)
InPlace(place) ==
    /\ \A i \in 1 .. Done : processed[place[i]] = submitted[i]
    /\ \A i, j \in 1 .. Done : i < j => place[i] < place[j]
    /\ \A k \in DOMAIN processed : processed[k] \in Async => \E i \in 1 .. Done : place[i] = k
SubmissionOrder ==
    /\ Done >= 0 /\ \A i \in DOMAIN Queued : Queued[i] = submitted[Done + i]
    /\ \E place \in [1 .. Done -> DOMAIN processed] : InPlace(place)

(* A blocking request is processed after all that was queued before it     *)
(* entered the gate.                                                       *)
BlockingComesLast ==
    \A r \in Blocking : result[r] # "none" =>
        \A q \in ahead[r] : \E i, j \in DOMAIN processed :
            i < j /\ processed[i] = q /\ processed[j] = r

(* ProcessedInOrder: whatever mixture of queued and blocking requests, and *)
(* whoever works off the queue, nobody is overtaken.                       *)
ProcessedInOrder == SubmissionOrder /\ BlockingComesLast

(* Whichever way a request was made and submitted, if its memory was       *)
(* allocated the controller releases it once, when the request ends, and   *)
(* never while the request can still be reached; a request on the stack    *)
(* is left alone.                                                          *)
FreedOnce ==
    /\ \A r \in Async \cup Legacy : frees[r] = IF result[r] = "none" THEN 0 ELSE 1
    /\ \A r \in OnStack : frees[r] = 0
    /\ \A r \in ToSet(requestQueue) \cup ToSet(localQueue) : frees[r] = 0

(* "It is the driver's responsibility to free the request structure: after *)
(* a submitRequestAndBlock call returns" (ApplePS2Device.h:314): a driver  *)
(* that does so always releases memory that is released already.           *)
DriverFreesAgain == \A r \in freedAgain : frees[r] = 1

(* stop() leaves nothing behind that was submitted before it. *)
NothingLeftByStop == stopped => \A r \in ToSet(submitted) : result[r] # "none"

(* NothingLeaks: the controller releases the memory of every allocated     *)
(* request at the right time, also when stop() comes in the middle of a    *)
(* submission; only what a driver does beside it is one release too many.  *)
NothingLeaks == FreedOnce /\ DriverFreesAgain /\ NothingLeftByStop

(* Every request submitted is processed in the end, asleep or not. *)
EventuallyProcessed ==
    \A r \in Async : r \in ToSet(submitted) ~> result[r] # "none"

(* "Freeze the request queue" and "Unblock the request queue and wake up   *)
(* all driver threads that were blocked by submitRequest()"                *)
(* (VoodooPS2Controller.cpp:1851, 1900): a request does not end while the  *)
(* hardware is offline for sleep.                                          *)
FrozenWhileAsleep ==
    [][offline /\ offline' /\ ~stopped' => processed' = processed]_vars

=============================================================================
