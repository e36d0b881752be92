------------------------------ MODULE ParserProofs ------------------------------
(***************************************************************************)
(* Proofs about Parser for any definitions, bytes, classes and room in the *)
(* events: after any feeds and resets each event holds exactly the bytes   *)
(* that its actions were handed.                                           *)
(***************************************************************************)
EXTENDS Parser, FiniteSetTheorems, SequenceTheorems, WellFoundedInduction, TLAPS

-----------------------------------------------------------------------------
(* The inductive invariant.                                                *)

Event == [command : Seq(Byte), args : Seq(Byte), done : BOOLEAN]
History == [byte : Byte, type : SUBSET Class, state : DOMAIN def.states]

ParserTypeInv ==
    /\ def \in Definitions
    /\ state \in DOMAIN def.states
    /\ fed \in Seq(History)
    /\ e1 \in Event /\ e2 \in Event
    /\ next \in BOOLEAN

ParserInv == ParserTypeInv /\ EventsExact

-----------------------------------------------------------------------------
(* Arithmetic and counting.                                                *)

\* The lesser of two numbers.
LEMMA MinOfTwo ==
    ASSUME NEW a \in Nat, NEW b \in Nat
    PROVE  Min({a, b}) = IF a <= b THEN a ELSE b
<1> DEFINE m == IF a <= b THEN a ELSE b
<1>1. m \in {a, b} /\ \A y \in {a, b} : m <= y
  OBVIOUS
<1>2. \A z \in {a, b} : (\A y \in {a, b} : z <= y) => z = m
  OBVIOUS
<1> QED
  BY <1>1, <1>2 DEF Min

\* A set of numbers that is not empty has a least element, and that is its Min.
LEMMA LeastNumber ==
    ASSUME NEW S \in SUBSET Nat, S # {}
    PROVE  Min(S) \in S /\ \A y \in S : Min(S) <= y
<1>1. PICK x \in S : \A y \in S : ~(<<y, x>> \in OpToRel(<, Nat))
  BY NatLessThanWellFounded, WFMin
<1>2. OpToRel(<, Nat) = {pair \in Nat \X Nat : pair[1] < pair[2]}
  BY Zenon DEF OpToRel
<1>3. \A y \in S : ~(y < x)
  BY <1>1, <1>2
<1>4. \A y \in S : x <= y
  BY <1>3
<1> QED
  BY <1>4 DEF Min

\* How many of a set of places up to n there are.
LEMMA PlacesFinite ==
    ASSUME NEW n \in Nat, NEW places \in SUBSET (1..n)
    PROVE  IsFiniteSet(places) /\ Cardinality(places) \in Nat
<1>1. IsFiniteSet(1..n)
  BY FS_Interval
<1>2. IsFiniteSet(places)
  BY <1>1, FS_Subset
<1> QED
  BY <1>2, FS_CardinalityType

\* The rank of a place counts it and those before it, and later ones do not matter.
LEMMA RankOfOld ==
    ASSUME NEW n \in Nat, NEW places \in SUBSET (1..n), NEW k \in places
    PROVE  /\ Rank(k, places \cup {n + 1}) = Rank(k, places)
           /\ Rank(k, places) \in 1..Cardinality(places)
<1>1. {j \in places \cup {n + 1} : j <= k} = {j \in places : j <= k}
  OBVIOUS
<1> DEFINE upto == {j \in places : j <= k}
<1>2. upto \in SUBSET places /\ k \in upto
  OBVIOUS
<1>3. IsFiniteSet(places) /\ Cardinality(places) \in Nat
  BY PlacesFinite
<1>4. IsFiniteSet(upto) /\ Cardinality(upto) <= Cardinality(places)
  BY <1>2, <1>3, FS_Subset
<1>5. Cardinality(upto) \in Nat /\ Cardinality(upto) # 0
  BY <1>2, <1>4, FS_CardinalityType, FS_EmptySet
<1>6. Cardinality(upto) \in 1..Cardinality(places)
  <2> HIDE DEF upto
  <2> QED
    BY <1>3, <1>4, <1>5
<1> QED
  BY <1>1, <1>6 DEF Rank

\* A place after all others has the number of them for its rank.
LEMMA RankOfNew ==
    ASSUME NEW n \in Nat, NEW places \in SUBSET (1..n)
    PROVE  /\ Cardinality(places \cup {n + 1}) = Cardinality(places) + 1
           /\ Rank(n + 1, places \cup {n + 1}) = Cardinality(places) + 1
<1>1. \A j \in places : j \in Nat /\ j <= n /\ j <= n + 1
  OBVIOUS
<1>2. IsFiniteSet(places)
  BY PlacesFinite
<1>3. ~(n + 1 <= n) /\ n + 1 <= n + 1
  OBVIOUS
<1>4. n + 1 \notin places
  BY <1>1, <1>3, Zenon
<1>5. Cardinality(places \cup {n + 1}) = Cardinality(places) + 1
  BY <1>2, <1>4, FS_AddElement
<1>6. {j \in places \cup {n + 1} : j <= n + 1} = places \cup {n + 1}
  BY <1>1, <1>3, Zenon
<1> QED
  BY <1>5, <1>6 DEF Rank

-----------------------------------------------------------------------------
(* What an event holds.                                                    *)

\* Nothing for this action: what it holds stays right.
LEMMA HoldsStill ==
    ASSUME NEW places \in SUBSET (1..Len(fed)), NEW bytes, NEW max, Holds(bytes, places, max),
           fed \in Seq(History), NEW f \in History, fed' = Append(fed, f)
    PROVE  Holds(bytes, places, max)'
<1>1. Len(fed) \in Nat /\ \A k \in 1..Len(fed) : fed'[k] = fed[k]
  BY AppendProperties
<1> QED
  BY <1>1 DEF Holds, Rank

\* One byte more for this action: it goes to the end if there is room.
LEMMA HoldsMore ==
    ASSUME NEW places \in SUBSET (1..Len(fed)), NEW bytes \in Seq(Byte), NEW max \in Nat,
           Holds(bytes, places, max),
           fed \in Seq(History), NEW f \in History, fed' = Append(fed, f),
           NEW after, after = places \cup {Len(fed) + 1},
           NEW new, new = Capped(bytes, max, f.byte)
    PROVE  Holds(new, after, max)'
<1>1. /\ Len(fed) \in Nat /\ fed'[Len(fed) + 1] = f
      /\ \A k \in 1..Len(fed) : fed'[k] = fed[k]
  BY AppendProperties
<1>2. Cardinality(places) \in Nat
  BY <1>1, PlacesFinite
<1>3. /\ Cardinality(after) = Cardinality(places) + 1
      /\ Rank(Len(fed) + 1, after) = Cardinality(places) + 1
  BY <1>1, RankOfNew
<1>4. \A k \in places : Rank(k, after) = Rank(k, places) /\ Rank(k, places) \in 1..Cardinality(places)
  BY <1>1, RankOfOld
<1>5. Len(bytes) \in Nat /\ Len(bytes) = IF max <= Cardinality(places) THEN max ELSE Cardinality(places)
  BY <1>2, MinOfTwo DEF Holds
<1>6. f.byte \in Byte
  BY DEF History
<1>7. ASSUME NEW k \in places, Rank(k, after) <= max PROVE bytes[Rank(k, after)] = fed'[k].byte
  BY <1>1, <1>4, <1>7 DEF Holds
<1>8. Min({max, Cardinality(after)}) =
          IF max <= Cardinality(places) + 1 THEN max ELSE Cardinality(places) + 1
  <2>1. Cardinality(places) + 1 \in Nat
    BY <1>2
  <2> QED
    BY <1>3, <2>1, MinOfTwo
<1>9. \A k \in after : k \in places \/ k = Len(fed) + 1
  OBVIOUS
<1>10. CASE Len(bytes) < max
  <2>1. Cardinality(places) < max /\ Len(bytes) = Cardinality(places)
    BY <1>2, <1>5, <1>10
  <2>2. new = Append(bytes, f.byte)
    BY <1>10 DEF Capped
  <2>3. /\ Len(new) = Cardinality(places) + 1 /\ new[Cardinality(places) + 1] = f.byte
        /\ \A i \in 1..Cardinality(places) : new[i] = bytes[i]
    BY <1>6, <2>1, <2>2, AppendProperties
  <2>4. Len(new) = Min({max, Cardinality(after)})
    BY <1>2, <1>8, <2>1, <2>3
  <2>5. ASSUME NEW k \in places, Rank(k, after) <= max PROVE new[Rank(k, after)] = fed'[k].byte
    BY <1>4, <1>7, <2>3, <2>5
  <2>6. new[Rank(Len(fed) + 1, after)] = fed'[Len(fed) + 1].byte
    BY <1>1, <1>3, <2>3
  <2>7. \A k \in after : Rank(k, after) <= max => new[Rank(k, after)] = fed'[k].byte
    BY <1>9, <2>5, <2>6
  <2> QED
    BY <2>4, <2>7 DEF Holds, Rank
<1>11. CASE ~(Len(bytes) < max)
  <2>1. max <= Cardinality(places) /\ Len(bytes) = max
    BY <1>2, <1>5, <1>11
  <2>2. new = bytes
    BY <1>11 DEF Capped
  <2>3. Len(new) = Min({max, Cardinality(after)})
    BY <1>2, <1>8, <2>1, <2>2
  <2>4. \A k \in after : Rank(k, after) <= max => k \in places
    BY <1>2, <1>3, <1>9, <2>1
  <2>5. \A k \in after : Rank(k, after) <= max => new[Rank(k, after)] = fed'[k].byte
    BY <1>7, <2>2, <2>4
  <2> QED
    BY <2>3, <2>5 DEF Holds, Rank
<1> QED
  BY <1>10, <1>11

-----------------------------------------------------------------------------
(* Steps.                                                                  *)

\* The first transition that the byte satisfies is the one taken.
LEMMA RunsTaken ==
    ASSUME def \in Definitions, NEW s \in DOMAIN def.states, NEW c \in Byte, NEW type \in SUBSET Class,
           NEW f, f = [byte |-> c, type |-> type, state |-> s], NEW act, NEW action
    PROVE  /\ Matching(s, c, type) = {} => ~Runs(f, act, action)
           /\ Matching(s, c, type) # {} =>
                 /\ Runs(f, act, action) <=> Taken(s, c, type)[act] = action
                 /\ Taken(s, c, type) \in Transition(DOMAIN def.states)
<1> DEFINE matching == Matching(s, c, type)
<1>1. def.states[s] \in Seq(Transition(DOMAIN def.states)) /\ Len(def.states[s]) \in Nat
  BY ParserAssumption
<1>2. f.byte = c /\ f.type = type /\ f.state = s
  OBVIOUS
<1>3. \A i \in 1..Len(def.states[s]) : i \in matching <=> Matches(def.states[s][i].when, c, type)
  BY DEF Matching
<1>4. matching \in SUBSET (1..Len(def.states[s])) /\ matching \in SUBSET Nat
  BY DEF Matching
<1>5. Runs(f, act, action) <=>
        \E i \in matching : def.states[s][i][act] = action /\ \A h \in 1..i - 1 : h \notin matching
  <2>1. \A i \in 1..Len(def.states[s]) : \A h \in 1..i - 1 : h \in 1..Len(def.states[s])
    BY <1>1
  <2> HIDE DEF matching
  <2> QED
    BY <1>2, <1>3, <1>4, <2>1 DEF Runs
<1>6. CASE matching = {}
  BY <1>5, <1>6
<1>7. CASE matching # {}
  <2>1. PICK first : first = Min(matching)
    OBVIOUS
  <2>2. first \in matching /\ \A y \in matching : first <= y
    BY <1>4, <1>7, <2>1, LeastNumber
  <2>3. \A i \in matching : (\A h \in 1..i - 1 : h \notin matching) <=> i = first
    <3> SUFFICES ASSUME NEW i \in matching
                 PROVE  (\A h \in 1..i - 1 : h \notin matching) <=> i = first
      OBVIOUS
    <3>1. i \in Nat /\ first \in Nat /\ first >= 1 /\ first <= i
      BY <1>4, <2>2
    <3>2. CASE i = first
      BY <1>4, <2>2, <3>1, <3>2
    <3>3. CASE i # first
      <4>1. first \in 1..i - 1
        BY <3>1, <3>3
      <4> QED
        BY <2>2, <3>3, <4>1
    <3> QED
      BY <3>2, <3>3
  <2>4. Runs(f, act, action) <=> def.states[s][first][act] = action
    BY <1>5, <2>2, <2>3
  <2>5. Taken(s, c, type) = def.states[s][first]
    BY <2>1 DEF Taken
  <2>6. def.states[s][first] \in Transition(DOMAIN def.states)
    BY <1>1, <1>4, <2>2
  <2> QED
    BY <1>7, <2>4, <2>5, <2>6
<1> QED
  BY <1>6, <1>7

\* The places after a feed.
LEMMA HandedStep ==
    ASSUME fed \in Seq(History), NEW f \in History, fed' = Append(fed, f), def' = def,
           NEW act, NEW action
    PROVE  /\ Handed(act, action) \in SUBSET (1..Len(fed))
           /\ Handed(act, action)' = IF Runs(f, act, action)
                                       THEN Handed(act, action) \cup {Len(fed) + 1}
                                       ELSE Handed(act, action)
<1>1. /\ Len(fed) \in Nat /\ Len(fed') = Len(fed) + 1 /\ fed'[Len(fed) + 1] = f
      /\ \A k \in 1..Len(fed) : fed'[k] = fed[k]
  BY AppendProperties
<1>2. \A g : Runs(g, act, action)' <=> Runs(g, act, action)
  BY DEF Runs
<1>3. Handed(act, action)' = {k \in 1..Len(fed') : Runs(fed'[k], act, action)}
  BY <1>2 DEF Handed, Runs
<1>4. \A k : k \in 1..Len(fed') <=> k \in 1..Len(fed) \/ k = Len(fed) + 1
  BY <1>1
<1>5. Handed(act, action) = {k \in 1..Len(fed) : Runs(fed[k], act, action)}
  BY DEF Handed
<1> QED
  BY <1>1, <1>3, <1>4, <1>5

\* What an action does to an event.
LEMMA ActFields ==
    ASSUME NEW action \in Actions, NEW event \in Event, NEW c \in Byte
    PROVE  /\ Act(action, event, c) \in Event
           /\ Act(action, event, c).command = IF action = "process_command"
                 THEN Capped(event.command, MAX_COMMAND_LEN, c) ELSE event.command
           /\ Act(action, event, c).args = IF action = "process_argument"
                 THEN Capped(event.args, MAX_ARG_LEN, c) ELSE event.args
           /\ Act(action, event, c).done = IF action = "finalize" THEN TRUE ELSE event.done
<1>1. \A bytes \in Seq(Byte) : \A max : Capped(bytes, max, c) \in Seq(Byte)
  BY AppendProperties DEF Capped
<1>2. event.command \in Seq(Byte) /\ event.args \in Seq(Byte) /\ event.done \in BOOLEAN
  BY DEF Event
<1>3. CASE action = "process_command"
  BY <1>1, <1>2, <1>3 DEF Act, Event
<1>4. CASE action = "process_argument"
  BY <1>1, <1>2, <1>4 DEF Act, Event
<1>5. CASE action = "finalize"
  BY <1>2, <1>5 DEF Act, Event
<1> QED
  BY <1>3, <1>4, <1>5 DEF Actions

\* Both lists of an event.
Exact(event, act) ==
    /\ Holds(event.command, Handed(act, "process_command"), MAX_COMMAND_LEN)
    /\ Holds(event.args, Handed(act, "process_argument"), MAX_ARG_LEN)

\* One list of an event, for one byte.
LEMMA ListStep ==
    ASSUME fed \in Seq(History), NEW f \in History, fed' = Append(fed, f), def' = def,
           NEW act, NEW action, NEW max \in Nat, NEW bytes \in Seq(Byte),
           Holds(bytes, Handed(act, action), max),
           NEW new, new = IF Runs(f, act, action) THEN Capped(bytes, max, f.byte) ELSE bytes
    PROVE  Holds(new, Handed(act, action), max)'
<1>1. PICK places : places = Handed(act, action)
  OBVIOUS
<1>2. PICK after : after = Handed(act, action)'
  OBVIOUS
<1>3. places \in SUBSET (1..Len(fed))
      /\ after = IF Runs(f, act, action) THEN places \cup {Len(fed) + 1} ELSE places
  BY <1>1, <1>2, HandedStep
<1>4. Holds(new, after, max)'
  <2>1. CASE Runs(f, act, action)
    BY <1>1, <1>3, <2>1, HoldsMore
  <2>2. CASE ~Runs(f, act, action)
    BY <1>1, <1>3, <2>2, HoldsStill
  <2> QED
    BY <2>1, <2>2
<1> QED
  BY <1>2, <1>4 DEF Holds, Rank

\* Both, whichever action the byte runs for this event, if any.
LEMMA EventStep ==
    ASSUME fed \in Seq(History), NEW f \in History, fed' = Append(fed, f), def' = def,
           NEW act, NEW action \in Actions \cup {NULL},
           \A a \in Actions : Runs(f, act, a) <=> a = action,
           NEW event \in Event, Exact(event, act),
           NEW after, after = IF action = NULL THEN event ELSE Act(action, event, f.byte)
    PROVE  Exact(after, act)' /\ after \in Event
<1>1. NULL \notin Actions /\ {"process_command", "process_argument", "finalize"} \subseteq Actions
  BY DEF NULL, Actions
<1>2. f.byte \in Byte /\ MAX_COMMAND_LEN \in Nat /\ MAX_ARG_LEN \in Nat
  BY ParserAssumption DEF History
<1>3. event.command \in Seq(Byte) /\ event.args \in Seq(Byte) /\ event.done \in BOOLEAN
  BY DEF Event
<1>4. /\ after \in Event
      /\ after.command = IF action = "process_command"
            THEN Capped(event.command, MAX_COMMAND_LEN, f.byte) ELSE event.command
      /\ after.args = IF action = "process_argument"
            THEN Capped(event.args, MAX_ARG_LEN, f.byte) ELSE event.args
  <2>1. CASE action = NULL
    BY <1>1, <2>1
  <2>2. CASE action # NULL
    BY <1>2, <2>2, ActFields
  <2> QED
    BY <2>1, <2>2
<1>5. PICK command : command = after.command
  OBVIOUS
<1>6. PICK args : args = after.args
  OBVIOUS
<1>7. command = IF Runs(f, act, "process_command")
                  THEN Capped(event.command, MAX_COMMAND_LEN, f.byte) ELSE event.command
  BY <1>1, <1>4, <1>5
<1>8. args = IF Runs(f, act, "process_argument")
               THEN Capped(event.args, MAX_ARG_LEN, f.byte) ELSE event.args
  BY <1>1, <1>4, <1>6
<1>9. Holds(command, Handed(act, "process_command"), MAX_COMMAND_LEN)'
  BY <1>2, <1>3, <1>7, ListStep DEF Exact
<1>10. Holds(args, Handed(act, "process_argument"), MAX_ARG_LEN)'
  BY <1>2, <1>3, <1>8, ListStep DEF Exact
<1> QED
  BY <1>3, <1>4, <1>5, <1>6, <1>9, <1>10 DEF Exact

\* A feed that runs these two actions, or lacks them.
LEMMA FeedStep ==
    ASSUME ParserInv, ~crashed,
           NEW f \in History, fed' = Append(fed, f), def' = def, state' \in DOMAIN def.states,
           NEW first \in Actions \cup {NULL}, NEW second \in Actions \cup {NULL},
           \A a \in Actions : Runs(f, "act1", a) <=> a = first,
           \A a \in Actions : Runs(f, "act2", a) <=> a = second,
           e1' = IF first = NULL THEN e1 ELSE Act(first, e1, f.byte),
           e2' = IF second = NULL THEN e2 ELSE Act(second, e2, f.byte),
           next' = (second # NULL)
    PROVE  ParserInv'
<1>1. /\ fed \in Seq(History) /\ e1 \in Event /\ e2 \in Event /\ def \in Definitions
      /\ Exact(e1, "act1") /\ Exact(e2, "act2")
      /\ e1.done <=> Handed("act1", "finalize") # {}
  BY DEF ParserInv, ParserTypeInv, EventsExact, Exact
<1>2. PICK one, two : one = e1 /\ two = e2
  OBVIOUS
<1>3. PICK one1, two1 : one1 = e1' /\ two1 = e2'
  OBVIOUS
<1>4. Exact(one1, "act1")' /\ one1 \in Event
  <2>1. one \in Event /\ Exact(one, "act1")
    BY <1>1, <1>2
  <2>2. one1 = IF first = NULL THEN one ELSE Act(first, one, f.byte)
    BY <1>2, <1>3
  <2> QED
    BY <1>1, <2>1, <2>2, EventStep
<1>5. Exact(two1, "act2")' /\ two1 \in Event
  <2>1. two \in Event /\ Exact(two, "act2")
    BY <1>1, <1>2
  <2>2. two1 = IF second = NULL THEN two ELSE Act(second, two, f.byte)
    BY <1>2, <1>3
  <2> QED
    BY <1>1, <2>1, <2>2, EventStep
<1>6. Exact(e1, "act1")' /\ Exact(e2, "act2")'
  BY <1>3, <1>4, <1>5 DEF Exact, Holds
<1>7. e1'.done <=> Handed("act1", "finalize")' # {}
  <2>1. "finalize" \in Actions
    BY DEF Actions
  <2>2. Handed("act1", "finalize")' # {} <=> Handed("act1", "finalize") # {} \/ first = "finalize"
    BY <1>1, <2>1, HandedStep
  <2>3. e1'.done = IF first = "finalize" THEN TRUE ELSE e1.done
    <3>1. f.byte \in Byte /\ NULL # "finalize"
      BY DEF History, NULL
    <3> QED
      BY <1>1, <3>1, ActFields
  <2> QED
    BY <1>1, <2>2, <2>3
<1>8. next' <=> fed' # <<>> /\ \E action \in Actions : Runs(fed[Len(fed)], "act2", action)'
  <2>1. fed' # <<>> /\ fed'[Len(fed')] = f
    BY <1>1, AppendProperties
  <2>2. \A action \in Actions : Runs(fed[Len(fed)], "act2", action)' <=> action = second
    BY <2>1 DEF Runs
  <2>3. NULL \notin Actions
    BY DEF NULL, Actions
  <2> QED
    BY <2>1, <2>2, <2>3
<1>9. ParserTypeInv'
  <2>1. fed' \in Seq(History) /\ next' \in BOOLEAN
    BY <1>1, AppendProperties
  <2>2. History' = History
    BY DEF History
  <2> QED
    BY <1>1, <1>3, <1>4, <1>5, <2>1, <2>2 DEF ParserTypeInv
<1> QED
  BY <1>6, <1>7, <1>8, <1>9 DEF ParserInv, EventsExact, Exact

\* What parser_feed knows of the byte.
LEMMA FeedType ==
    ASSUME ParserInv, NEW c \in Byte, NEW type \in SUBSET Class, Feed(c, type)
    PROVE  /\ [byte |-> c, type |-> type, state |-> state] \in History
           /\ fed' = Append(fed, [byte |-> c, type |-> type, state |-> state])
           /\ fed' \in Seq(History) /\ def' = def /\ ~crashed /\ History' = History
<1>1. [byte |-> c, type |-> type, state |-> state] \in History /\ fed \in Seq(History)
  BY DEF ParserInv, ParserTypeInv, History
<1>2. fed' = Append(fed, [byte |-> c, type |-> type, state |-> state]) /\ def' = def /\ ~crashed
  BY DEF Feed
<1> QED
  BY <1>1, <1>2, AppendProperties DEF History

\* A byte that no transition takes ends the list after the first event.
LEMMA IgnoredStep ==
    ASSUME ParserInv, NEW c \in Byte, NEW type \in SUBSET Class, FeedIgnored(c, type)
    PROVE  ParserInv'
<1>1. PICK f : f = [byte |-> c, type |-> type, state |-> state]
  OBVIOUS
<1>2. f \in History /\ fed' = Append(fed, f) /\ def' = def /\ ~crashed
  BY <1>1, FeedType DEF FeedIgnored
<1>3. /\ Matching(state, c, type) = {} /\ next' = FALSE
      /\ UNCHANGED <<state, e1, e2>>
  BY DEF FeedIgnored
<1>4. state \in DOMAIN def.states /\ def \in Definitions
  BY DEF ParserInv, ParserTypeInv
<1>5. PICK s : s = state
  OBVIOUS
<1>6. \A act, a : ~Runs(f, act, a)
  BY <1>1, <1>3, <1>4, RunsTaken
<1>7. NULL \notin Actions /\ NULL \in Actions \cup {NULL}
  BY DEF NULL, Actions
<1>8. \A a \in Actions : a # NULL
  BY <1>7
<1> QED
  BY <1>2, <1>3, <1>4, <1>6, <1>7, <1>8, FeedStep

\* A byte that a transition takes runs its one or two actions.
LEMMA TakesStep ==
    ASSUME ParserInv, NEW c \in Byte, NEW type \in SUBSET Class, FeedTakes(c, type)
    PROVE  ParserInv'
<1>1. PICK f : f = [byte |-> c, type |-> type, state |-> state]
  OBVIOUS
<1>2. f \in History /\ fed' = Append(fed, f) /\ def' = def /\ ~crashed /\ f.byte = c
  BY <1>1, FeedType DEF FeedTakes
<1>3. PICK t : t = Taken(state, c, type)
  OBVIOUS
<1>4. /\ Matching(state, c, type) # {}
      /\ t.act1 # NULL /\ e1' = Act(t.act1, e1, c) /\ next' = (t.act2 # NULL)
      /\ e2' = IF t.act2 = NULL THEN e2 ELSE Act(t.act2, e2, c)
      /\ state' = t.dest
  BY <1>3 DEF FeedTakes, Linked
<1>5. state \in DOMAIN def.states /\ def \in Definitions
  BY DEF ParserInv, ParserTypeInv
<1>6. /\ \A act, a : Runs(f, act, a) <=> t[act] = a
      /\ t \in Transition(DOMAIN def.states)
  BY <1>1, <1>3, <1>4, <1>5, RunsTaken
<1>7. /\ t.act1 \in Actions \cup {NULL} /\ t.act2 \in Actions \cup {NULL}
      /\ t.dest \in DOMAIN def.states
  BY <1>6 DEF Transition
<1>8. /\ \A a \in Actions : Runs(f, "act1", a) <=> a = t.act1
      /\ \A a \in Actions : Runs(f, "act2", a) <=> a = t.act2
  BY <1>6
<1> QED
  BY <1>2, <1>4, <1>7, <1>8, FeedStep

\* Every step keeps the invariant; after a crash nothing is promised.
LEMMA ParserStep == ParserInv /\ [Next]_vars => ParserInv'
<1> SUFFICES ASSUME ParserInv, [Next]_vars PROVE ParserInv'
  OBVIOUS
<1>1. CASE parser_reset \/ UNCHANGED vars
  <2>1. UNCHANGED <<def, e1, e2, next, crashed, fed>> /\ state' \in DOMAIN def.states
    BY <1>1, ParserAssumption DEF parser_reset, vars, ParserInv, ParserTypeInv
  <2>2. ParserTypeInv'
    BY <2>1 DEF ParserInv, ParserTypeInv, History
  <2>3. /\ \A act, action : Handed(act, action)' = Handed(act, action)
        /\ \A action : Runs(fed[Len(fed)], "act2", action)' <=> Runs(fed[Len(fed)], "act2", action)
    BY <2>1 DEF Handed, Runs
  <2>4. EventsExact'
    BY <2>1, <2>3 DEF ParserInv, EventsExact, Holds
  <2> QED
    BY <2>2, <2>4 DEF ParserInv
<1>2. ASSUME NEW c \in Byte, parser_feed(c) PROVE ParserInv'
  <2>1. PICK type \in SUBSET Class :
          FeedCrashes(c, type) \/ FeedIgnored(c, type) \/ FeedTakes(c, type)
    BY <1>2, ParserAssumption DEF parser_feed
  <2>2. CASE FeedCrashes(c, type)
    <3>1. fed' \in Seq(History) /\ History' = History /\ def' = def /\ crashed'
          /\ UNCHANGED <<state, e1, e2, next>>
      BY <2>2, FeedType DEF FeedCrashes
    <3> QED
      BY <3>1 DEF ParserInv, ParserTypeInv, EventsExact
  <2> QED
    BY <2>1, <2>2, IgnoredStep, TakesStep
<1> QED
  BY <1>1, <1>2 DEF Next

\* Nothing has been fed, and the events are empty.
LEMMA ParserInit == parser_init => ParserInv
<1> SUFFICES ASSUME parser_init PROVE ParserInv
  OBVIOUS
<1>1. /\ def \in Definitions /\ state = def.start_state /\ fed = <<>>
      /\ e1 = NoEvent /\ e2 = NoEvent /\ next = FALSE
  BY DEF parser_init
<1>2. NoEvent \in Event
  BY DEF NoEvent, Event
<1>3. ParserTypeInv
  <2>1. <<>> \in Seq(History)
    OBVIOUS
  <2>2. fed \in Seq(History) /\ next \in BOOLEAN
    BY <1>1, <2>1, Zenon
  <2>3. state \in DOMAIN def.states
    BY <1>1, ParserAssumption
  <2> QED
    BY <1>1, <1>2, <2>2, <2>3 DEF ParserTypeInv
<1>4. \A act, action : Handed(act, action) = {}
  BY <1>1 DEF Handed
<1>5. \A max \in Nat : Holds(<<>>, {}, max)
  <2> SUFFICES ASSUME NEW max \in Nat PROVE Holds(<<>>, {}, max)
    OBVIOUS
  <2>1. Cardinality({}) = 0 /\ Len(<<>>) = 0
    BY FS_EmptySet
  <2>2. Min({max, 0}) = 0
    BY MinOfTwo
  <2> QED
    BY <2>1, <2>2 DEF Holds
<1>6. EventsExact
  BY <1>1, <1>4, <1>5, ParserAssumption DEF EventsExact, NoEvent
<1> QED
  BY <1>3, <1>6 DEF ParserInv

-----------------------------------------------------------------------------
(* Theorems.                                                               *)

\* The invariant holds in every state.
THEOREM ParserInvariance == Spec => []ParserInv
BY ParserInit, ParserStep, PTL DEF Spec

\* EventsExact for any definition, bytes and classes, also for the byte past the
\* table: until a null pointer is followed, the events hold exactly what their
\* actions were handed (parser.c:50-82, pop3_parser.c:3-17).
THEOREM EventsAreExact == Spec => []EventsExact
<1>1. ParserInv => EventsExact
  BY DEF ParserInv
<1> QED
  BY <1>1, ParserInvariance, PTL
=============================================================================
