----------------------------- MODULE MCDelivery -----------------------------
EXTENDS Delivery, TLC

Interchangeable == Permutations(Tasks) \union Permutations(Children)
                                       \union Permutations(Ptys)
=============================================================================
