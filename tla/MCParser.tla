------------------------------ MODULE MCParser ------------------------------
(***************************************************************************)
(* The machine of test/parser_test.c, with the actions that src/parser has *)
(* for its foo and bar, and a machine that uses what the test does not:    *)
(* classes, second actions, states without a transition for every byte;    *)
(* and the machine for POP3, of which no byte reaches a transition.        *)
(***************************************************************************)
EXTENDS Parser

S == <<On(Is("F"), "S0", "process_command", NULL), On(Any, "S1", "process_argument", NULL)>>
TestDefinition == [start_state |-> "S0", states_n |-> TRUE, states |-> [S0 |-> S, S1 |-> S]]

LineDefinition ==
    [start_state |-> "WORD",
     states_n    |-> TRUE,
     states      |->
        [WORD |-> <<On(InClass({"alpha"}), "WORD", "process_command", "process_argument"), On(Is("SP"), "REST", "process_argument", NULL)>>,
         REST |-> <<On(InClass({"end"}), "WORD", "finalize", NULL), On(InClass({"alpha", "end"}), "REST", "process_argument", NULL)>>]]

MCDefinitions == {TestDefinition, LineDefinition, pop3_parser}
MCPop3 == {pop3_parser}
MCByte == {"F", "SP", "CR", "LF", "LAST"}
MCClasses == [c \in MCByte |-> IF c = "F" THEN {"alpha"} ELSE IF c = "CR" THEN {"end"} ELSE {}]
=============================================================================
