------------------------------ MODULE StmProofs -----------------------------
(***************************************************************************)
(* Proofs about Stm, for any table of states: when the machine belongs to  *)
(* one descriptor and no callback unregisters it, arrivals and departures  *)
(* pair up, and the callbacks implement StateVisits.                       *)
(***************************************************************************)
EXTENDS Stm, TLAPS

OneOwner == ~Nested /\ \A fd1, fd2 \in Fds : fd1 = fd2

\* What a call in progress looks like.
CallOK(call) ==
    /\ status # "new"
    /\ current \in States
    /\ registered # {}
    /\ call.op = "close" => call.at = "departure" /\ call.fd \in registered
    /\ call.op # "close" /\ call.at = "departure" => call.next \in States

\* There is at most one, and the machine it runs in is in a state and registered.
CallInv ==
    \/ calls = <<>>
    \/ \E call \in Frames : calls = <<call>> /\ CallOK(call)

StmInv ==
    /\ StmTypeOK
    /\ CallInv
    /\ VisitsBalanced
    /\ status = "ready" => max_state = N - 1
    /\ status = "new" => current = NULL /\ registered = Fds

-----------------------------------------------------------------------------
\* A machine starts in the invariant.
LEMMA StmInitInv == Init => StmInv
  BY StmAssumption DEF Init, StmInv, StmTypeOK, CallInv, VisitsBalanced, States, NULL

\* A stack of one call.
LEMMA SingleCall ==
    ASSUME NEW call
    PROVE  /\ Head(<<call>>) = call
           /\ Tail(<<call>>) = <<>>
           /\ <<call>> \o <<>> = <<call>>
           /\ <<call>> # <<>>
           /\ Len(<<call>>) = 1
           /\ <<call>>[1] = call
  OBVIOUS

\* In the middle of a call: the types and the balance, with the call in hand.
LEMMA InCall ==
    ASSUME StmInv, calls # <<>>
    PROVE  \E call \in Frames : calls = <<call>> /\ CallOK(call)
  BY DEF StmInv, CallInv

\* What a step of a machine that runs has to show.
LEMMA StillOK ==
    ASSUME StmInv, status = "ready", status' \in {"ready", "aborted"},
           UNCHANGED machine, current' \in States \cup {NULL},
           registered' \in SUBSET Fds, open' \in [States -> Int],
           \/ calls' = <<>>
           \/ \E call \in Frames : calls' = <<call>> /\ CallOK(call)',
           VisitsBalanced'
    PROVE  StmInv'
<1>1. calls' \in Seq(Frames)
  <2>1. CASE calls' = <<>>
    BY <2>1
  <2>2. ASSUME NEW call \in Frames, calls' = <<call>>
        PROVE  calls' \in Seq(Frames)
    BY <2>2
  <2> QED
    BY <2>1, <2>2
<1>2. initial' = initial /\ max_state' = max_state
  BY DEF machine
<1> QED
  BY <1>1, <1>2 DEF StmInv, StmTypeOK, CallInv

\* Running a state's handler.
LEMMA RunReadyOK ==
    ASSUME StmInv, status = "ready", NEW op \in Events, RunReady(op, <<>>),
           current \in States, registered # {},
           \/ calls = <<>>
           \/ \E call \in Frames : calls = <<call>> /\ call.at # "departure",
           UNCHANGED <<machine, current, registered, open>>
    PROVE  StmInv'
<1>1. calls = <<>> \/ Head(calls).at # "departure"
  BY SingleCall
<1>2. \A s \in States : open[s] = IF s = current THEN 1 ELSE 0
  BY <1>1 DEF StmInv, VisitsBalanced
<1>3. CASE calls' = <<Call(op, "ready", NULL, NULL)>> \o <<>> /\ UNCHANGED status
  <2> DEFINE c == Call(op, "ready", NULL, NULL)
  <2>1. c \in Frames /\ c.at = "ready" /\ c.op # "close"
    BY DEF Frames, Call, Events
  <2>2. calls' = <<c>> /\ Head(calls') = c
    BY <1>3, SingleCall
  <2> HIDE DEF c
  <2>3. CallOK(c)'
    BY <2>1, <1>3 DEF CallOK
  <2>4. VisitsBalanced'
    BY <2>1, <2>2, <1>2 DEF VisitsBalanced
  <2> QED
    BY <2>1, <2>2, <2>3, <2>4, <1>3, StillOK DEF StmInv, StmTypeOK
<1>4. CASE status' = "aborted" /\ UNCHANGED calls
  <2>1. VisitsBalanced'
    BY <1>4 DEF StmInv, VisitsBalanced
  <2>2. CallInv'
    BY <1>4 DEF StmInv, CallInv, CallOK
  <2> QED
    BY <1>4, <2>1, <2>2, StillOK DEF StmInv, StmTypeOK, CallInv
<1> QED
  BY <1>3, <1>4 DEF RunReady

\* The state a handler returned: a jump to another one, or none.
LEMMA JumpOK ==
    ASSUME StmInv, status = "ready", NEW next \in 0..N, Jump(next)
    PROVE  StmInv'
<1>1. PICK call \in Frames : calls = <<call>> /\ CallOK(call)
  BY InCall DEF Jump
<1>2. /\ call.at = "ready" /\ call.op # "close"
      /\ Head(calls) = call /\ Tail(calls) = <<>>
  BY <1>1, SingleCall DEF Jump, CallOK
<1>3. current \in States /\ registered # {} /\ max_state = N - 1
  BY <1>1 DEF CallOK, StmInv
<1>4. \A s \in States : open[s] = IF s = current THEN 1 ELSE 0
  BY <1>2, <1>3 DEF StmInv, VisitsBalanced
<1>5. CASE status' = "aborted" /\ UNCHANGED <<calls, open>>
  <2>1. CallOK(call)'
    BY <1>1, <1>5 DEF CallOK, Jump
  <2>2. VisitsBalanced'
    BY <1>5 DEF StmInv, VisitsBalanced, Jump
  <2> QED
    BY <1>1, <1>5, <2>1, <2>2, StillOK DEF StmInv, StmTypeOK, Jump
<1>6. CASE next = current /\ calls' = Tail(calls) /\ UNCHANGED <<status, open>>
  <2>1. calls' = <<>>
    BY <1>2, <1>6
  <2>2. VisitsBalanced'
    BY <1>3, <1>4, <1>6, <2>1 DEF VisitsBalanced, Jump
  <2> QED
    BY <1>6, <2>1, <2>2, StillOK DEF StmInv, StmTypeOK, Jump
<1>7. CASE /\ next <= max_state
           /\ Departing(current)
           /\ calls' = <<Call(Head(calls).op, "departure", next, NULL)>> \o Tail(calls)
           /\ UNCHANGED status
  <2> DEFINE c == Call(call.op, "departure", next, NULL)
  <2>1. c \in Frames /\ c.at = "departure" /\ c.op # "close" /\ c.next \in States
    BY <1>2, <1>3, <1>7, StmAssumption DEF Frames, Call, Events, States
  <2>1a. calls' = <<c>> \o <<>>
    BY <1>2, <1>7
  <2> HIDE DEF c
  <2>2. calls' = <<c>> /\ Head(calls') = c /\ calls' # <<>>
    BY <2>1a, SingleCall
  <2>3. CallOK(c)'
    BY <2>1, <1>3, <1>7 DEF CallOK, Jump
  <2>3a. open[current] = 1 /\ open' = [open EXCEPT ![current] = open[current] - 1]
    BY <1>3, <1>4, <1>7 DEF Departing
  <2>4. open' = [open EXCEPT ![current] = 0]
    BY <2>3a
  <2>5. VisitsBalanced'
    BY <2>1, <2>2, <2>4, <1>4 DEF VisitsBalanced, StmInv, StmTypeOK
  <2>6. open' \in [States -> Int]
    BY <2>4, <1>3 DEF StmInv, StmTypeOK
  <2> QED
    BY <1>7, <2>1, <2>2, <2>3, <2>5, <2>6, StillOK DEF StmInv, StmTypeOK, Jump
<1> QED
  BY <1>5, <1>6, <1>7 DEF Jump, JumpTo

\* After the departure of a jump.
LEMMA DepartedOK ==
    ASSUME StmInv, status = "ready", Departed
    PROVE  StmInv'
<1>1. PICK call \in Frames : calls = <<call>> /\ CallOK(call)
  BY InCall DEF Departed
<1>2. /\ call.at = "departure" /\ call.op # "close" /\ call.next \in States
      /\ Head(calls) = call /\ Tail(calls) = <<>> /\ calls # <<>>
  BY <1>1, SingleCall DEF Departed, CallOK
<1>3. \A s \in States : open[s] = 0
  BY <1>2 DEF StmInv, VisitsBalanced
<1> DEFINE c == [call EXCEPT !.at = "arrival"]
<1>4. c \in Frames /\ c.at = "arrival" /\ c.op # "close"
  BY <1>2 DEF Frames
<1>4a. calls' = <<c>> \o <<>>
  BY <1>2 DEF Departed
<1> HIDE DEF c
<1>5. calls' = <<c>> /\ Head(calls') = c
  BY <1>4a, SingleCall
<1>5a. /\ current' = call.next /\ open[call.next] = 0
       /\ open' = [open EXCEPT ![call.next] = open[call.next] + 1]
  BY <1>2, <1>3 DEF Departed, Arriving
<1>6. current' = call.next /\ open' = [open EXCEPT ![call.next] = 1]
  BY <1>5a
<1>7. registered # {} /\ UNCHANGED <<machine, status, registered>>
  BY <1>1 DEF CallOK, Departed
<1>8. CallOK(c)'
  BY <1>2, <1>4, <1>6, <1>7 DEF CallOK
<1>9. VisitsBalanced'
  BY <1>2, <1>3, <1>4, <1>5, <1>6, <1>7 DEF VisitsBalanced, StmInv, StmTypeOK
<1>10. open' \in [States -> Int]
  BY <1>2, <1>6 DEF StmInv, StmTypeOK
<1> QED
  BY <1>2, <1>4, <1>5, <1>6, <1>7, <1>8, <1>9, <1>10, StillOK DEF StmInv, StmTypeOK

\* Closing the only descriptor between handlers.
LEMMA UnregisterOK ==
    ASSUME OneOwner, StmInv, status = "ready", NEW fd \in Fds, Unregister(fd)
    PROVE  StmInv'
<1>1. calls = <<>> /\ fd \in registered /\ UNCHANGED <<machine, current, status>>
  BY DEF Unregister, OneOwner
<1>2. \A s \in States : open[s] = IF s = current THEN 1 ELSE 0
  BY <1>1 DEF StmInv, VisitsBalanced
<1>3. CASE /\ current # NULL
           /\ Departing(current)
           /\ calls' = <<Call("close", "departure", NULL, fd)>> \o calls
           /\ UNCHANGED registered
  <2> DEFINE c == Call("close", "departure", NULL, fd)
  <2>1. c \in Frames /\ c.at = "departure" /\ c.op = "close" /\ c.fd = fd
    BY DEF Frames, Call, Events
  <2>2. calls' = <<c>> /\ Head(calls') = c /\ calls' # <<>>
    BY <1>1, <1>3, SingleCall
  <2> HIDE DEF c
  <2>3. current \in States
    BY <1>3 DEF StmInv, StmTypeOK
  <2>4. CallOK(c)'
    BY <1>1, <1>3, <2>1, <2>3 DEF CallOK
  <2>4a. open[current] = 1 /\ open' = [open EXCEPT ![current] = open[current] - 1]
    BY <1>2, <1>3, <2>3 DEF Departing
  <2>5. open' = [open EXCEPT ![current] = 0]
    BY <2>4a
  <2>6. VisitsBalanced' /\ open' \in [States -> Int]
    BY <1>2, <2>1, <2>2, <2>3, <2>5 DEF VisitsBalanced, StmInv, StmTypeOK
  <2> QED
    BY <1>1, <1>3, <2>1, <2>2, <2>4, <2>6, StillOK DEF StmInv, StmTypeOK
<1>4. CASE current = NULL /\ registered' = registered \ {fd} /\ UNCHANGED <<calls, open>>
  <2>1. \A s \in States : s # current
    BY <1>4, StmAssumption DEF States, NULL
  <2>2. VisitsBalanced'
    BY <1>1, <1>2, <1>4, <2>1 DEF VisitsBalanced
  <2> QED
    BY <1>1, <1>4, <2>2, StillOK DEF StmInv, StmTypeOK
<1> QED
  BY <1>3, <1>4 DEF Unregister, stm_handler_close

\* After the departure at the close.
LEMMA ClosedOK ==
    ASSUME OneOwner, StmInv, status = "ready", Closed
    PROVE  StmInv'
<1>1. PICK call \in Frames : calls = <<call>> /\ CallOK(call)
  BY InCall DEF Closed
<1>2. /\ call.at = "departure" /\ call.op = "close" /\ call.fd \in registered
      /\ Head(calls) = call /\ Tail(calls) = <<>> /\ calls # <<>>
  BY <1>1, SingleCall DEF Closed, CallOK
<1>3. calls' = <<>> /\ UNCHANGED <<machine, current, status, open>>
  BY <1>2 DEF Closed
<1>4. registered' = {}
  BY <1>2 DEF Closed, OneOwner, StmInv, StmTypeOK
<1>5. VisitsBalanced'
  BY <1>2, <1>3, <1>4 DEF VisitsBalanced, StmInv
<1> QED
  BY <1>3, <1>4, <1>5, StillOK DEF StmInv, StmTypeOK

\* Every step of a machine with one descriptor keeps the invariant.
LEMMA StmStepInv ==
    ASSUME OneOwner, StmInv, [Next]_vars
    PROVE  StmInv'
<1>1. CASE stm_init
  <2>1. /\ UNCHANGED <<machine, current, calls, registered, open>>
        /\ status = "new" /\ status' \in {"ready", "aborted", "overrun"}
        /\ status' = "ready" => max_state < N
    BY <1>1, StmAssumption DEF stm_init, StmInv, StmTypeOK
  <2>2. calls = <<>>
    BY <2>1, InCall DEF CallOK
  <2>3. status' = "ready" => max_state = N - 1
    BY <2>1, StmAssumption DEF StmInv, StmTypeOK
  <2> QED
    BY <2>1, <2>2, <2>3 DEF StmInv, StmTypeOK, CallInv, VisitsBalanced, machine
<1>2. ASSUME status = "ready", NEW op \in Events, HandleFirst(op)
      PROVE  StmInv'
  <2> DEFINE c == Call(op, "first", NULL, NULL)
  <2>1. c \in Frames /\ c.at = "first" /\ c.op # "close"
    BY DEF Frames, Call, Events
  <2>2. calls' = <<c>> /\ Head(calls') = c
    BY <1>2, SingleCall DEF HandleFirst
  <2> HIDE DEF c
  <2>3. \A s \in States : s # current
    BY <1>2, StmAssumption DEF HandleFirst, States, NULL
  <2>4. /\ initial \in States /\ current' = initial /\ registered # {}
        /\ UNCHANGED <<machine, status, registered>>
    BY <1>2 DEF HandleFirst, StmInv, StmTypeOK
  <2>4a. open[initial] = 0 /\ open' = [open EXCEPT ![initial] = open[initial] + 1]
    BY <1>2, <2>3, <2>4 DEF HandleFirst, Arriving, StmInv, VisitsBalanced
  <2>5. open' = [open EXCEPT ![initial] = 1]
    BY <2>4a
  <2>6. VisitsBalanced' /\ open' \in [States -> Int]
    BY <2>1, <2>2, <2>3, <2>4, <2>5 DEF StmInv, StmTypeOK, VisitsBalanced
  <2>7. CallOK(c)'
    BY <1>2, <2>1, <2>4 DEF CallOK
  <2> QED
    BY <1>2, <2>1, <2>2, <2>4, <2>6, <2>7, StillOK DEF StmInv, StmTypeOK
<1>3. ASSUME status = "ready", NEW op \in Events, HandleAgain(op)
      PROVE  StmInv'
  BY <1>3, RunReadyOK DEF HandleAgain, StmInv, StmTypeOK
<1>4. CASE status = "ready" /\ FirstArrived
  <2>1. PICK call \in Frames : calls = <<call>> /\ CallOK(call)
    BY <1>4, InCall DEF FirstArrived
  <2>2. Head(calls) = call /\ Tail(calls) = <<>> /\ call.at = "first" /\ call.op \in Events
    BY <1>4, <2>1, SingleCall DEF FirstArrived, CallOK, Frames
  <2>3. current \in States /\ registered # {} /\ RunReady(call.op, <<>>)
    BY <1>4, <2>1, <2>2 DEF FirstArrived, CallOK
  <2> QED
    BY <1>4, <2>1, <2>2, <2>3, RunReadyOK DEF FirstArrived
<1>5. ASSUME status = "ready", NEW next \in 0..N, Jump(next)
      PROVE  StmInv'
  BY <1>5, JumpOK
<1>6. CASE status = "ready" /\ Departed
  BY <1>6, DepartedOK
<1>7. CASE status = "ready" /\ Arrived
  <2>1. PICK call \in Frames : calls = <<call>> /\ CallOK(call)
    BY <1>7, InCall DEF Arrived
  <2>2. Head(calls) = call /\ call.at # "departure" /\ calls' = <<>>
    BY <1>7, <2>1, SingleCall DEF Arrived
  <2>3. UNCHANGED <<machine, current, status, registered, open>>
    BY <1>7 DEF Arrived
  <2>4. VisitsBalanced'
    BY <2>1, <2>2, <2>3 DEF StmInv, VisitsBalanced
  <2> QED
    BY <1>7, <2>2, <2>3, <2>4, StillOK DEF StmInv, StmTypeOK
<1>8. ASSUME status = "ready", NEW fd \in Fds, Unregister(fd)
      PROVE  StmInv'
  BY <1>8, UnregisterOK
<1>9. CASE status = "ready" /\ Closed
  BY <1>9, ClosedOK
<1>10. CASE UNCHANGED vars
  BY <1>10 DEF vars, machine, StmInv, StmTypeOK, CallInv, CallOK, VisitsBalanced
<1> QED
  BY <1>1, <1>2, <1>3, <1>4, <1>5, <1>6, <1>7, <1>8, <1>9, <1>10 DEF Next

\* Hence the invariant always holds (stm.c:68-108), for any table.
THEOREM StmInvariance ==
    ASSUME OneOwner
    PROVE  Spec => []StmInv
  BY StmInitInv, StmStepInv, PTL DEF Spec

\* Arrivals and departures pair up, for every table of states.
THEOREM VisitsAreBalanced ==
    ASSUME OneOwner
    PROVE  Spec => []VisitsBalanced
<1>1. StmInv => VisitsBalanced
  BY DEF StmInv
<1> QED
  BY <1>1, StmInvariance, PTL

\* StmTypeOK for every table of states: in particular a machine that was set up
\* never leaves its table (stm.c:31-37).
THEOREM StmTypeCorrect ==
    ASSUME OneOwner
    PROVE  Spec => []StmTypeOK
<1>1. StmInv => StmTypeOK
  BY DEF StmInv
<1> QED
  BY <1>1, StmInvariance, PTL

-----------------------------------------------------------------------------
(* Refinement.                                                             *)

Over == registered = {} \/ Closing

ClosingNow == calls # <<>> /\ Head(calls).op = "close"

\* With one call at most, a machine is being closed when that call is a close.
LEMMA ClosingIs == StmInv => (Closing <=> ClosingNow)
<1> SUFFICES ASSUME StmInv PROVE Closing <=> ClosingNow
  OBVIOUS
<1>1. CASE calls = <<>>
  BY <1>1 DEF Closing, ClosingNow
<1>2. CASE calls # <<>>
  BY <1>2, InCall, SingleCall DEF Closing, ClosingNow
<1> QED
  BY <1>1, <1>2

\* The same of the next state.
LEMMA ClosingIsNext == StmInv' => (Closing' <=> ClosingNow')
<1> SUFFICES ASSUME StmInv' PROVE Closing' <=> ClosingNow'
  OBVIOUS
<1>1. CASE calls' = <<>>
  BY <1>1 DEF Closing, ClosingNow
<1>2. ASSUME NEW call \in Frames, calls' = <<call>>
      PROVE  Closing' <=> ClosingNow'
  BY <1>2, SingleCall DEF Closing, ClosingNow
<1> QED
  BY <1>1, <1>2 DEF StmInv, CallInv

\* No state is visited at the start.
LEMMA VisitsInit == Init => Visits!Init
<1> SUFFICES ASSUME Init PROVE Visits!Init
  OBVIOUS
<1>1. ~Closing
  BY DEF Init, Closing
<1> QED
  BY <1>1, StmAssumption DEF Init, Visits!Init

\* Every step of the machine is one of the promise's, or a stutter.
LEMMA VisitsStep ==
    ASSUME OneOwner, StmInv, StmInv', [Next]_vars
    PROVE  [Visits!Next]_(Visits!promised)
<1>0. (Closing <=> ClosingNow) /\ (Closing' <=> ClosingNow')
  BY ClosingIs, ClosingIsNext
<1> DEFINE visitedNow == {s \in States : open[s] # 0}
<1>s. ASSUME UNCHANGED open, Over' <=> Over
      PROVE  UNCHANGED Visits!promised
  BY <1>s DEF Visits!promised, Over
<1>1. CASE stm_init \/ UNCHANGED vars
  BY <1>0, <1>1, <1>s DEF stm_init, vars, Over, ClosingNow
<1>2. ASSUME NEW op \in Events, HandleFirst(op)
      PROVE  Visits!Next
  <2>1. calls = <<>> /\ registered # {} /\ initial \in States /\ registered' = registered
    BY <1>2 DEF HandleFirst, StmInv, StmTypeOK
  <2>2. current \notin States
    BY <1>2, StmAssumption DEF HandleFirst, States, NULL
  <2>3. \A s \in States : open[s] = 0
    BY <2>2 DEF StmInv, VisitsBalanced
  <2>4. Head(calls').op # "close"
    BY <1>2, <2>1, SingleCall DEF HandleFirst, Call, Events
  <2>5. visitedNow = {} /\ ~Over /\ ~Over'
    BY <1>0, <2>1, <2>3, <2>4 DEF Over, ClosingNow
  <2>6. visitedNow' = {initial}
    <3>1. open' = [open EXCEPT ![initial] = open[initial] + 1]
      BY <1>2 DEF HandleFirst, Arriving
    <3>2. \A s \in States : open'[s] # 0 <=> s = initial
      BY <2>1, <2>3, <3>1 DEF StmInv, StmTypeOK
    <3> QED
      BY <2>1, <3>2
  <2> QED
    BY <2>1, <2>5, <2>6 DEF Visits!Next, Visits!Arrive, Over
<1>3. ASSUME NEW op \in Events, HandleAgain(op)
      PROVE  UNCHANGED Visits!promised
  <2>1. calls' = <<>> \/ Head(calls').op # "close"
    BY <1>3, SingleCall DEF HandleAgain, RunReady, Call, Events
  <2> QED
    BY <1>0, <1>3, <1>s, <2>1 DEF HandleAgain, Over, ClosingNow
<1>4. CASE FirstArrived
  <2>1. PICK call \in Frames : calls = <<call>> /\ CallOK(call)
    BY <1>4, InCall DEF FirstArrived
  <2>2. Head(calls) = call /\ Tail(calls) = <<>> /\ call.at = "first" /\ call.op # "close"
    BY <1>4, <2>1, SingleCall DEF FirstArrived, CallOK
  <2>3. Head(calls').op # "close"
    BY <1>4, <2>2, SingleCall DEF FirstArrived, RunReady, Call
  <2> QED
    BY <1>0, <1>4, <1>s, <2>2, <2>3 DEF FirstArrived, Over, ClosingNow
<1>5. ASSUME NEW next \in 0..N, Jump(next)
      PROVE  Visits!Next \/ UNCHANGED Visits!promised
  <2>1. PICK call \in Frames : calls = <<call>> /\ CallOK(call)
    BY <1>5, InCall DEF Jump
  <2>2. /\ Head(calls) = call /\ Tail(calls) = <<>> /\ call.at = "ready"
        /\ call.op # "close" /\ current \in States /\ registered # {}
        /\ registered' = registered
    BY <1>5, <2>1, SingleCall DEF Jump, CallOK
  <2>3. calls' = <<>> \/ Head(calls').op # "close"
    BY <1>5, <2>2, SingleCall DEF Jump, JumpTo, Call
  <2>4. ~Over /\ ~Over'
    BY <1>0, <2>2, <2>3 DEF Over, ClosingNow
  <2>5. CASE UNCHANGED open
    BY <1>s, <2>4, <2>5
  <2>6. CASE /\ calls' = <<Call(Head(calls).op, "departure", next, NULL)>> \o Tail(calls)
             /\ Departing(current)
    <3>1. calls' # <<>> /\ Head(calls').at = "departure"
      BY <2>2, <2>6, SingleCall DEF Call
    <3>2. visitedNow' = {}
      BY <3>1 DEF StmInv, VisitsBalanced
    <3>3. current \in visitedNow
      BY <2>1, <2>2, SingleCall DEF StmInv, VisitsBalanced
    <3> QED
      BY <2>4, <3>2, <3>3 DEF Visits!Next, Visits!Depart, Over
  <2> QED
    BY <1>5, <2>5, <2>6 DEF Jump, JumpTo
<1>6. CASE Departed
  <2>1. PICK call \in Frames : calls = <<call>> /\ CallOK(call)
    BY <1>6, InCall DEF Departed
  <2>2. /\ Head(calls) = call /\ Tail(calls) = <<>> /\ call.at = "departure"
        /\ call.op # "close" /\ call.next \in States /\ registered # {} /\ calls # <<>>
        /\ registered' = registered /\ current' = call.next
    BY <1>6, <2>1, SingleCall DEF Departed, CallOK
  <2> DEFINE c == [call EXCEPT !.at = "arrival"]
  <2>3. c.op # "close" /\ c.at = "arrival" /\ calls' = <<c>> \o <<>>
    BY <1>6, <2>2 DEF Departed, Frames
  <2> HIDE DEF c
  <2>4. Head(calls') = c
    BY <2>3, SingleCall
  <2>5. ~Over /\ ~Over'
    BY <1>0, <2>2, <2>3, <2>4 DEF Over, ClosingNow
  <2>6. visitedNow = {}
    BY <2>2 DEF StmInv, VisitsBalanced
  <2>7. visitedNow' = {call.next}
    BY <2>2, <2>3, <2>4 DEF StmInv, VisitsBalanced
  <2>8. Visits!Arrive(call.next)
    BY <2>5, <2>6, <2>7 DEF Visits!Arrive, Over
  <2> QED
    BY <2>2, <2>8 DEF Visits!Next
<1>7. CASE Arrived
  <2>1. PICK call \in Frames : calls = <<call>> /\ CallOK(call)
    BY <1>7, InCall DEF Arrived
  <2>2. call.op # "close" /\ Head(calls) = call /\ calls' = <<>>
    BY <1>7, <2>1, SingleCall DEF Arrived, CallOK
  <2> QED
    BY <1>0, <1>7, <1>s, <2>2 DEF Arrived, Over, ClosingNow
<1>8. ASSUME NEW fd \in Fds, Unregister(fd)
      PROVE  Visits!Next
  <2>1. calls = <<>> /\ fd \in registered /\ registered \subseteq {fd}
    BY <1>8 DEF Unregister, OneOwner, StmInv, StmTypeOK
  <2>2. ~Over
    BY <1>0, <2>1 DEF Over, ClosingNow
  <2>3. Over' /\ visitedNow' = {}
    <3>1. CASE calls' = <<Call("close", "departure", NULL, fd)>> \o calls
      <4>1. calls' # <<>> /\ Head(calls').op = "close" /\ Head(calls').at = "departure"
        BY <2>1, <3>1, SingleCall DEF Call
      <4> QED
        BY <1>0, <4>1 DEF Over, ClosingNow, StmInv, VisitsBalanced
    <3>2. CASE registered' = registered \ {fd}
      <4>1. registered' = {}
        BY <2>1, <3>2
      <4> QED
        BY <4>1 DEF Over, StmInv, VisitsBalanced
    <3> QED
      BY <1>8, <3>1, <3>2 DEF Unregister, stm_handler_close
  <2> QED
    BY <2>2, <2>3 DEF Visits!Next, Visits!Close, Over
<1>9. CASE Closed
  <2>1. Over
    BY <1>0, <1>9 DEF Closed, Over, ClosingNow
  <2>2. PICK call \in Frames : calls = <<call>> /\ CallOK(call)
    BY <1>9, InCall DEF Closed
  <2>3. Head(calls) = call /\ call.op = "close" /\ call.fd \in registered
    BY <1>9, <2>2, SingleCall DEF Closed, CallOK
  <2>4. registered' = {}
    BY <1>9, <2>3 DEF Closed, OneOwner, StmInv, StmTypeOK
  <2> QED
    BY <1>9, <1>s, <2>1, <2>4 DEF Closed, Over
<1> QED
  BY <1>1, <1>2, <1>3, <1>4, <1>5, <1>6, <1>7, <1>8, <1>9 DEF Next

\* The callbacks implement StateVisits, for every table of states: no visit
\* overlaps another, and no state is arrived at after the close.
THEOREM StmImplementsVisits ==
    ASSUME OneOwner
    PROVE  Spec => ImplementsVisits
  BY StmInvariance, VisitsInit, VisitsStep, PTL DEF Spec, ImplementsVisits, Visits!Spec
=============================================================================
