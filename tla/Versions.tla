-------------------------------- MODULE Versions --------------------------------
(***************************************************************************)
(* The gate for old clients.  A version is the sequence of its dotted      *)
(* components, each the number it starts with and what makes it more than  *)
(* a number: nothing, a suffix such as "-beta", or text that is no number. *)
(* The empty sequence is the missing version.                              *)
(***************************************************************************)
EXTENDS Integers, Sequences

CONSTANT Number  \* the numbers of a component

Component == [number : Number, text : {"plain", "suffixed", "junk"}]

\* component: what follows "-" or "+" is dropped, what is no number is zero,
\* and so is a component that is not there.
NumberOf(version, i) ==
    IF i > Len(version) \/ version[i].text = "junk" THEN 0 ELSE version[i].number

Longest(a, b) == IF Len(a) > Len(b) THEN Len(a) ELSE Len(b)

\* Mutant: the comparison ends with the shorter version.
CompareShortest(a, b) ==
    LET differ == {i \in 1..(IF Len(a) < Len(b) THEN Len(a) ELSE Len(b)) :
                      NumberOf(a, i) # NumberOf(b, i)}
    IN  IF differ = {} THEN Len(a) - Len(b)
        ELSE LET first == CHOOSE i \in differ : \A j \in differ : i <= j
             IN  NumberOf(a, first) - NumberOf(b, first)

\* Negative, zero or positive, by the first component that differs.
Compare(a, b) ==
    LET differ == {i \in 1..Longest(a, b) : NumberOf(a, i) # NumberOf(b, i)}
    IN  IF differ = {} THEN 0
        ELSE LET first == CHOOSE i \in differ : \A j \in differ : i <= j
             IN  NumberOf(a, first) - NumberOf(b, first)

\* "ios" and "android" in any case have a minimum, others none.
ToLower(platform) == IF platform = "iOS" THEN "ios" ELSE platform
MinimumFor(gate, platform) ==
    CASE ToLower(platform) = "ios"     -> gate.ios
      [] ToLower(platform) = "android" -> gate.android
      [] OTHER -> <<>>

\* Decide: a minimum or a version that is not there forces nobody.
Decide(gate, platform, version) ==
    LET minimum == MinimumFor(gate, platform)
    IN  /\ minimum # <<>> /\ version # <<>>
        /\ Compare(version, minimum) < 0
===============================================================================
