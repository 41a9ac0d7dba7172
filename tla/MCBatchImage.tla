----------------------------- MODULE MCBatchImage -----------------------------
EXTENDS BatchImage, TLC

CONSTANTS j1, w1, w2

MCFunds == {<<0, 0>>, <<1, 0>>, <<0, 1>>}

WorkerSymmetry == Permutations(Workers)
=============================================================================
