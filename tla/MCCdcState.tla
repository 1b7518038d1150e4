------------------------------ MODULE MCCdcState ------------------------------
(***************************************************************************)
(* Instances of CdcState for TLC.                                           *)
(***************************************************************************)
EXTENDS CdcState, TLC

CONSTANTS r1, r2, h1, h2, h3, h4, h5, h6

At(s, us) == [s |-> s, us |-> us]
Change(id, h, offset, r, seq, t) ==
  [id |-> id, hash |-> h, offset |-> offset, record |-> r, seq |-> seq, at |-> t, commit |-> t]

\* Four changes of one record, of which two have no sequence number, and one of
\* another; then the deliveries that repeat the first of them under its id, its
\* hash and its offset.
Changes == {
  Change(1, h1, 0, r1, 1, At(1, 0)),
  Change(2, h2, 1, r1, 2, At(1, 500000)),
  Change(3, h3, 2, r1, 0, At(2, 0)),
  Change(4, h4, NoOffset, r1, 0, At(2, 250000)),
  Change(5, h5, 3, r2, 2, At(0, 750000))}
Repeats == {
  Change(1, h6, 4, r1, 3, At(3, 0)),
  Change(6, h1, 5, r1, 3, At(3, 0)),
  Change(7, h6, 0, r2, 1, At(0, 250000))}
ChangesAndRepeats == Changes \cup Repeats

\* Two changes without a sequence number, half a second apart.
Unsequenced == {
  Change(1, h1, NoOffset, r1, 0, At(1, 0)),
  Change(2, h2, NoOffset, r1, 0, At(1, 500000)),
  Change(3, h3, NoOffset, r1, 0, At(2, 0)),
  Change(4, h4, NoOffset, r2, 0, At(1, 0)),
  Change(5, h5, NoOffset, r2, 0, At(2, 1))}
=============================================================================
