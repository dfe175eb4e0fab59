------------------------------ MODULE MCShell -------------------------------
(* The keys s, 9 and 0 give a letter, both parentheses and two digits; the *)
(* buffer is just large enough for a call with one digit.  The first       *)
(* symbol is the null symbol of an ELF table.                              *)
EXTENDS Shell

MCKeys == {"s", "9", "0"}
MCPlain == [k \in MCKeys |-> k]
MCShifted == [k \in MCKeys |-> CASE k = "s" -> "S" [] k = "9" -> "(" [] k = "0" -> ")"]
MCStopLines == {<<"S">>}
MCInfoLine == <<"S", "S">>
MCSymbols == << [name |-> <<>>, func |-> "none"], [name |-> <<"s">>, func |-> "sleep"],
                [name |-> <<"s", "s">>, func |-> "fork"], [name |-> <<"9">>, func |-> "other"] >>
MCCalls ==
    {[name |-> <<"s">>, words |-> << <<>> >>, values |-> <<0, 0, 0>>],
     [name |-> <<"s">>, words |-> << <<"9">> >>, values |-> <<9, 0, 0>>],
     [name |-> <<"s">>, words |-> << <<"0">> >>, values |-> <<0, 0, 0>>],
     [name |-> <<"s", "s">>, words |-> << <<>> >>, values |-> <<0, 0, 0>>],
     [name |-> <<"9">>, words |-> << <<>> >>, values |-> <<0, 0, 0>>]}
=============================================================================
