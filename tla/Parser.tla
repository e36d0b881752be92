------------------------------- MODULE Parser -------------------------------
(***************************************************************************)
(* src/parser: an engine that is fed a byte at a time, runs the actions of *)
(* the first transition that the byte satisfies and returns a list of one  *)
(* or two events, and the definition of a machine for POP3 with its        *)
(* actions.                                                                *)
(*                                                                         *)
(* A condition is a byte, a set of classes or ANY.  The table of classes   *)
(* that parser_no_classes returns lacks an entry for the last byte: what   *)
(* is read there is open.                                                  *)
(***************************************************************************)
EXTENDS Integers, Sequences, FiniteSets, FiniteSetsExt

CONSTANTS
    Definitions,    \* parser definitions, see pop3_parser
    Byte,
    Class,
    classes,        \* the classes of each byte in the table
    Outside,        \* the bytes that the table has no entry for
    MAX_COMMAND_LEN, MAX_ARG_LEN,
    MaxFed          \* bound: how many bytes are fed

\* Conditions of a transition, and its actions.
Any == [kind |-> "any"]
Is(c) == [kind |-> "byte", byte |-> c]
InClass(cs) == [kind |-> "class", classes |-> cs]
NULL == "NULL"
Actions == {"process_command", "process_argument", "finalize"}
On(when, dest, act1, act2) == [when |-> when, dest |-> dest, act1 |-> act1, act2 |-> act2]

\* The machine for POP3 as it is declared, with SP, CR and LF among the bytes.  There
\* is no states_n, so no byte gets as far as a transition.  The engine takes the
\* records of a pointer and a count for pointers: the second and fourth it would find
\* are counts, and those after them belong to states further up.
NotAPointer == <<>>
ARGS == <<On(Any, "ARGS", "process_argument", NULL), On(Is("CR"), "TERMINATION", NULL, NULL)>>
pop3_parser ==
    [start_state |-> "INITIAL",
     states_n    |-> FALSE,
     states      |->
        [INITIAL     |-> <<On(Any, "COMMAND", "process_command", NULL), On(Is("SP"), "ERROR", NULL, NULL), On(Is("CR"), "ERROR", NULL, NULL)>>,
         COMMAND     |-> NotAPointer,
         ARGS        |-> ARGS,
         TERMINATION |-> NotAPointer,
         ERROR       |-> ARGS]]

Condition == [kind : {"any"}] \cup [kind : {"byte"}, byte : Byte]
                \cup [kind : {"class"}, classes : SUBSET Class]
Transition(dests) ==
    [when : Condition, dest : dests, act1 : Actions \cup {NULL}, act2 : Actions \cup {NULL}]

(* The transitions of a definition lead to states it has.                   *)
ASSUME ParserAssumption ==
    /\ {MAX_COMMAND_LEN, MAX_ARG_LEN} \subseteq Nat
    /\ classes \in [Byte -> SUBSET Class]
    /\ \A d \in Definitions :
          /\ d.start_state \in DOMAIN d.states
          /\ \A s \in DOMAIN d.states : d.states[s] \in Seq(Transition(DOMAIN d.states))

VARIABLES
    def,
    state,
    e1, e2,
    next,           \* does e1.next point to e2?
    crashed,        \* through a null pointer
    fed             \* history: what was fed, in which state and of which type

vars == <<def, state, e1, e2, next, crashed, fed>>

NoEvent == [command |-> <<>>, args |-> <<>>, done |-> FALSE]

parser_init ==
    /\ def \in Definitions
    /\ state = def.start_state
    /\ e1 = NoEvent /\ e2 = NoEvent /\ next = FALSE
    /\ crashed = FALSE
    /\ fed = <<>>

\* The events keep what is in them.
parser_reset ==
    /\ ~crashed
    /\ state' = def.start_state
    /\ UNCHANGED <<def, e1, e2, next, crashed, fed>>

Capped(bytes, max, c) == IF Len(bytes) < max THEN Append(bytes, c) ELSE bytes

\* process_command, process_argument and finalize.
Act(action, event, c) ==
    CASE action = "process_command"  -> [event EXCEPT !.command = Capped(@, MAX_COMMAND_LEN, c)]
      [] action = "process_argument" -> [event EXCEPT !.args = Capped(@, MAX_ARG_LEN, c)]
      [] action = "finalize"         -> [event EXCEPT !.done = TRUE]

Matches(when, c, type) ==
    CASE when.kind = "any"   -> TRUE
      [] when.kind = "byte"  -> when.byte = c
      [] when.kind = "class" -> when.classes \cap type # {}

\* The transitions of a state that the byte satisfies.
Matching(s, c, type) == {i \in 1..Len(def.states[s]) : Matches(def.states[s][i].when, c, type)}

Taken(s, c, type) == def.states[s][Min(Matching(s, c, type))]

\* Deliberate defect: the second event stays linked.
LinkedStill(t) == next \/ t.act2 # NULL

\* Does the list get a second event?
Linked(t) == t.act2 # NULL

Feed(c, type) ==
    /\ ~crashed
    /\ Len(fed) < MaxFed
    /\ fed' = Append(fed, [byte |-> c, type |-> type, state |-> state])
    /\ UNCHANGED def

\* The count of the transitions, or the action, is behind a null pointer.
FeedCrashes(c, type) ==
    /\ Feed(c, type)
    /\ ~def.states_n \/ (Matching(state, c, type) # {} /\ Taken(state, c, type).act1 = NULL)
    /\ crashed' = TRUE
    /\ UNCHANGED <<state, e1, e2, next>>

FeedIgnored(c, type) ==
    /\ Feed(c, type)
    /\ def.states_n /\ Matching(state, c, type) = {}
    /\ next' = FALSE
    /\ UNCHANGED <<state, e1, e2, crashed>>

FeedTakes(c, type) ==
    /\ Feed(c, type)
    /\ def.states_n /\ Matching(state, c, type) # {}
    /\ LET t == Taken(state, c, type)
       IN  /\ t.act1 # NULL
           /\ e1' = Act(t.act1, e1, c)
           /\ next' = Linked(t)
           /\ e2' = IF t.act2 = NULL THEN e2 ELSE Act(t.act2, e2, c)
           /\ state' = t.dest
    /\ UNCHANGED crashed

parser_feed(c) ==
    \E type \in IF c \in Outside THEN SUBSET Class ELSE {classes[c]} :
        FeedCrashes(c, type) \/ FeedIgnored(c, type) \/ FeedTakes(c, type)

Next ==
    \/ parser_reset
    \/ \E c \in Byte : parser_feed(c)

Spec == parser_init /\ [][Next]_vars

-----------------------------------------------------------------------------
\* Does the first transition for a byte of the history run this action?
Runs(f, act, action) ==
    \E i \in 1..Len(def.states[f.state]) : LET t == def.states[f.state][i] IN
        /\ t[act] = action
        /\ Matches(t.when, f.byte, f.type)
        /\ \A h \in 1..i - 1 : ~Matches(def.states[f.state][h].when, f.byte, f.type)

\* The places of the history whose byte was handed to this action.
Handed(act, action) == {k \in 1..Len(fed) : Runs(fed[k], act, action)}

Rank(k, places) == Cardinality({j \in places : j <= k})

\* Are these the bytes at these places of the history, in order, as many of the
\* first as there is room for?
Holds(bytes, places, max) ==
    /\ Len(bytes) = Min({max, Cardinality(places)})
    /\ \A k \in places : Rank(k, places) <= max => bytes[Rank(k, places)] = fed[k].byte

\* Each event holds exactly the bytes that its action was handed, in order, up to
\* the room there is, over all feeds and resets since parser_init; and the list has
\* a second event just when the last byte ran a second action (parser.c:53, 71-79,
\* pop3_parser.c:3-17).
EventsExact == ~crashed =>
    /\ Holds(e1.command, Handed("act1", "process_command"), MAX_COMMAND_LEN)
    /\ Holds(e1.args, Handed("act1", "process_argument"), MAX_ARG_LEN)
    /\ Holds(e2.command, Handed("act2", "process_command"), MAX_COMMAND_LEN)
    /\ Holds(e2.args, Handed("act2", "process_argument"), MAX_ARG_LEN)
    /\ e1.done <=> Handed("act1", "finalize") # {}
    /\ next <=> /\ fed # <<>>
                /\ \E action \in Actions : Runs(fed[Len(fed)], "act2", action)

\* "el usuario alimenta el parser con un caracter, y el parser retorna un evento"
\* (parser.h:85).
FeedReturns == ~crashed

\* Each byte is of the classes that the table gives it: it has "256 elementos"
\* (parser.h:70).
TypesFromTable == \A k \in 1..Len(fed) : fed[k].type = classes[fed[k].byte]
=============================================================================
