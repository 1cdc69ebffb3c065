---------------------------- MODULE CatalogTheorems ----------------------------
(***************************************************************************)
(* The theorems about Catalog.  CatalogTypes has the inductive steps.       *)
(***************************************************************************)
EXTENDS CatalogTypes, FiniteSetTheorems

(* The library's theorems are the facts the lemmas assume.                  *)
LEMMA FiniteSetLibrary == FiniteSetFacts
<1>1. CardinalFact
    BY FS_CardinalityType, Zenon DEF CardinalFact
<1>2. SubsetFact
    BY FS_Subset DEF SubsetFact
<1>3. IntervalFact
    BY FS_Interval, Zenon DEF IntervalFact
<1>4. EmptyFact
    BY FS_EmptySet, Zenon DEF EmptyFact
<1>5. InjectionFact
    BY FS_Injection, Zenon DEF InjectionFact
<1>6. SurjectionFact
    BY FS_Surjection, Zenon DEF SurjectionFact
<1> QED BY <1>1, <1>2, <1>3, <1>4, <1>5, <1>6, Zenon DEF FiniteSetFacts

(* The type invariant, for any number of transactions and any workload:     *)
(* what the caches hold came from a catalog that table_collect or an        *)
(* executor built, so that index ids stay in range when they are allocated. *)
THEOREM TypeCorrect == Spec => []TypeOK
<1>1. TypedState /\ [Next]_vars => TypedState'
    BY TypedNext, FiniteSetLibrary, Zenon
<1>2. TypedState => TypeOK
    BY DEF TypedState
<1> QED BY <1>1, <1>2, TypedInit, PTL DEF Spec
=============================================================================
