--------------------------- MODULE AddressResolution ---------------------------
(***************************************************************************)
(* Identity resolution (mayajaal/resolution).  Raw entities are resolved   *)
(* in the order of their IDs; here an entity is its position in a sequence *)
(* of normalized forms, so that the sequences are the assignments of IDs.  *)
(*                                                                         *)
(* A form is what normalize_address makes of an address: its locality (the *)
(* candidate bucket), its anchors, and how similar it is to each other     *)
(* form (RapidFuzz's ratio, in tenths of a percent).  Equal forms are      *)
(* equal exact keys.                                                       *)
(***************************************************************************)
EXTENDS Naturals, Sequences, FiniteSets

CONSTANTS
    Form,
    Bucket,         \* [Form -> localities]
    Anchors,        \* [Form -> sets of numbers]: tokens, in the order of their text
    Ratio,          \* [Form -> [Form -> 0 .. 1000]]
    Threshold,      \* ADDRESS_FUZZY_THRESHOLD
    MaxCandidates   \* MAX_ADDRESS_FUZZY_CANDIDATES

ASSUME ResolutionAssumption ==
    /\ DOMAIN Bucket = Form /\ DOMAIN Anchors = Form
    /\ \A f \in Form : Anchors[f] \subseteq Nat
    /\ Ratio \in [Form -> [Form -> 0 .. 1000]]
    /\ \A f, g \in Form : Ratio[f][g] = Ratio[g][f] /\ Ratio[f][f] = 1000
    /\ Threshold \in 1 .. 1000
    /\ MaxCandidates \in Nat \ {0}

\* _exact_resolution: the canonical entity of a normalized value is its first.
ExactCanonical(values, i) ==
    CHOOSE j \in DOMAIN values : values[j] = values[i] /\ \A k \in 1 .. j - 1 : values[k] # values[i]

\* Mutant: an address that was matched is matched to as well.
EveryMember(canonical) == DOMAIN canonical

\* The roots a fold has met: positions that are their own canonical entity.
Roots(canonical) == {j \in DOMAIN canonical : canonical[j] = j}

\* Mutant: the roots of all localities are looked up together.
AnchorRootsAnywhere(forms, canonical, bucket, anchor) ==
    {j \in Roots(canonical) : anchor \in Anchors[forms[j]]}

\* The roots of a locality that have an anchor.
AnchorRoots(forms, canonical, bucket, anchor) ==
    {j \in Roots(canonical) : Bucket[forms[j]] = bucket /\ anchor \in Anchors[forms[j]]}

\* The anchor of the form with the fewest roots, the first of those; the roots
\* are looked at in the order of their IDs and cut off at MaxCandidates.
Candidates(forms, canonical, form) ==
    LET roots(a) == AnchorRoots(forms, canonical, Bucket[form], a)
        used == {a \in Anchors[form] : roots(a) # {}}
        best == CHOOSE a \in used :
                  \A b \in used : \/ Cardinality(roots(a)) < Cardinality(roots(b))
                                  \/ Cardinality(roots(a)) = Cardinality(roots(b)) /\ a <= b
    IN  IF used = {} THEN {}
        ELSE {j \in roots(best) : Cardinality({k \in roots(best) : k < j}) < MaxCandidates}

\* The best match at or above the threshold, the first of equals, if there is one.
Matches(forms, candidates, form) ==
    {j \in candidates :
        /\ Ratio[form][forms[j]] >= Threshold
        /\ \A k \in candidates : \/ Ratio[form][forms[k]] < Ratio[form][forms[j]]
                                 \/ Ratio[form][forms[k]] = Ratio[form][forms[j]] /\ j <= k}

\* Mutant: an equal address is found by its similarity.
ResolveNextFuzzily(forms, canonical) ==
    LET i == Len(canonical) + 1
        fuzzy == Matches(forms, Candidates(forms, canonical, forms[i]), forms[i])
    IN  Append(canonical, IF fuzzy # {} THEN CHOOSE j \in fuzzy : TRUE ELSE i)

\* One address, the next in order: an exact root of its locality, a fuzzy match,
\* or a root of its own.
ResolveNext(forms, canonical) ==
    LET i == Len(canonical) + 1
        exact == {j \in Roots(canonical) : forms[j] = forms[i]}
        fuzzy == Matches(forms, Candidates(forms, canonical, forms[i]), forms[i])
        pick(s) == CHOOSE j \in s : TRUE
    IN  Append(canonical, IF exact # {} THEN pick(exact)
                          ELSE IF fuzzy # {} THEN pick(fuzzy) ELSE i)

\* resolve_addresses
ResolveAddresses(forms) ==
    LET resolved[n \in 0 .. Len(forms)] ==
            IF n = 0 THEN <<>> ELSE ResolveNext(forms, resolved[n - 1])
    IN  resolved[Len(forms)]

-----------------------------------------------------------------------------
(* Properties *)

\* Resolution is a partition with one representative: a canonical address is
\* canonical itself, comes first in its class, and no two canonical addresses
\* are the same address.
CanonicalIsRepresentative(forms) ==
    LET canonical == ResolveAddresses(forms)
    IN  \A i \in DOMAIN forms :
          /\ canonical[i] <= i
          /\ canonical[canonical[i]] = canonical[i]
          /\ \A j \in Roots(canonical) : (forms[i] = forms[j] /\ canonical[i] = i) => i = j

\* Similarity does not chain: every address is itself similar to the address it
\* is resolved to, in the same locality and with an anchor in common, however
\* many addresses were resolved to it before.
MergesAreJustified(forms) ==
    LET canonical == ResolveAddresses(forms)
    IN  \A i \in DOMAIN forms :
          LET f == forms[i]
              g == forms[canonical[i]]
          IN  f # g => /\ Bucket[f] = Bucket[g]
                       /\ Ratio[f][g] >= Threshold
                       /\ Anchors[f] \cap Anchors[g] # {}

\* Where nothing is similar, resolving addresses is resolving equal values: the
\* bounded search finds every equal address, anchors or not.
AgreesWithExact(forms) ==
    (\A i, j \in DOMAIN forms :
        \/ forms[i] = forms[j]
        \/ Bucket[forms[i]] # Bucket[forms[j]]
        \/ Ratio[forms[i]][forms[j]] < Threshold)
    => \A i \in DOMAIN forms : ResolveAddresses(forms)[i] = ExactCanonical(forms, i)
=============================================================================
