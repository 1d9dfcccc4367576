-------------------------------- MODULE Sums --------------------------------
(***************************************************************************)
(* Totals: the sum of f[x] over the elements x of a finite set.  The byte  *)
(* accounts of the cache, the ledgers of a build and a document's File     *)
(* Cost are all of this form.                                              *)
(***************************************************************************)
EXTENDS Integers, FiniteSetsExt

SumOver(f, S) == FoldSet(LAMBDA x, acc : f[x] + acc, 0, S)
=============================================================================
