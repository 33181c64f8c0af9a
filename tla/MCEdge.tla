-------------------------------- MODULE MCEdge --------------------------------
(***************************************************************************)
(* Edge for TLC: every route, with a provider that is a word of another    *)
(* route too, with a slash at the end, and paths that are nowhere.         *)
(***************************************************************************)
EXTENDS Edge

Concrete(pattern, word) ==
    [i \in 1..Len(pattern) |-> IF pattern[i] \in Wild THEN word ELSE pattern[i]]

Asked == {Concrete(Routes[o][2], word) : o \in Operation, word \in {"google", "providers"}}
            \cup Pages \cup {<<"v1">>, <<"v1", "auth", "google">>,
                           <<"v1", "me", "identities", "google", "start">>}

Paths == Asked \cup {Append(p, "blank") : p \in Asked}

Dotted(numbers) == [i \in 1..Len(numbers) |-> [number |-> numbers[i], text |-> "plain"]]

Versions1 ==
    {Dotted(n) : n \in {<<>>, <<1>>, <<1, 0>>, <<1, 2>>, <<1, 2, 0>>, <<1, 1, 3>>, <<2>>}}
      \cup {<<[number |-> 1, text |-> "plain"], [number |-> 2, text |-> "suffixed"]>>,
            <<[number |-> 2, text |-> "junk"]>>,
            <<[number |-> 1, text |-> "plain"], [number |-> 3, text |-> "junk"]>>}

Lies == {<<>>, <<"lie">>, <<"blank">>, <<"lie", "lie">>}
===============================================================================
