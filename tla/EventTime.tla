------------------------------- MODULE EventTime -------------------------------
(***************************************************************************)
(* _parse_timestamp (ingestion/cdc_envelope.py) gives an instant one text:   *)
(* ISO 8601 in UTC, with the fraction of a second left out when it is zero.    *)
(* Code that sorts the texts compares "." with "Z" there, and "." is less.     *)
(*                                                                         *)
(* An instant is a number of half seconds: an even one has no fraction.       *)
(***************************************************************************)
EXTENDS Integers

Second(at) == at \div 2

\* Texts are ordered by this number: within a second the fraction comes first.
TextRank(at) == 2 * Second(at) + (1 - (at % 2))

\* Two of the changes are in one second and only one has a fraction.
SplitSecond(R) == \E a, b \in R : a.at # b.at /\ Second(a.at) = Second(b.at)
=============================================================================
