---------------------------- MODULE MCDataoutFifo ----------------------------
(* DataoutFifo for TLC.                                                    *)
EXTENDS DataoutFifo, TLC

ReaderSymmetry == Permutations(Readers)

=============================================================================
