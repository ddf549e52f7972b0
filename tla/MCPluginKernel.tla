--------------------------- MODULE MCPluginKernel ---------------------------
EXTENDS PluginKernel, TLC

CONSTANT MaxDeclared   \* bound on the keys the plugins declare, in all

MCSymmetry == Permutations(Callers)

Declared(k) == Cardinality({p \in Plugins : k \in provides[p]}) +
               Cardinality({p \in Plugins : k \in inject[p]})

\* Every way to declare at most MaxDeclared keys, up to a renaming of the keys.
FewKeys ==
  /\ SumFunction([k \in Keys |-> Declared(k)]) <= MaxDeclared
  /\ \A k, l \in Keys : k < l => Declared(k) >= Declared(l)

MCInit == KernelInit /\ FewKeys

MCSpec == MCInit /\ [][KernelNext]_kernelVars
=============================================================================
