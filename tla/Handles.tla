------------------------------- MODULE Handles -------------------------------
(***************************************************************************)
(* Generational handles, as both tables of src/host_handles.rs use them:   *)
(* the low word of a handle is a slot (counted from 1), the high word the  *)
(* generation of its present tenant.                                       *)
(***************************************************************************)
EXTENDS Integers

CONSTANT MaxGeneration   \* MAX_GENERATION, 2^32 - 1 in the code

ASSUME GenerationAssumption == MaxGeneration \in Nat \ {0}

\* What decode_handle accepts: neither word of a handle is 0.
Handle == [slot : Nat \ {0}, gen : 1..MaxGeneration]

\* Mutants: the generation counts on past its limit, which the type of the
\* word does not allow; a slot is reused under its old generation.
MutNextGenerationUnbounded(g) == g + 1
MutNextGenerationStays(g) == g

\* next_generation wraps from the limit to 1.
NextGeneration(g) == IF g = MaxGeneration THEN 1 ELSE g + 1

\* The order of handles as 64-bit integers, in which a BTreeSet keeps them.
Before(h, k) == h.gen < k.gen \/ (h.gen = k.gen /\ h.slot < k.slot)

=============================================================================
