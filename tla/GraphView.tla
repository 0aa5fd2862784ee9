------------------------------- MODULE GraphView -------------------------------
(***************************************************************************)
(* The identity graph as an investigation and the feature layer meet it: a *)
(* view that grows as facts become known, in any order, and what is        *)
(* extracted from it and shown of it at fixed cutoffs.                     *)
(*                                                                         *)
(* A fact is the set of edges that one event, or several that belong       *)
(* together, put into the graph (graph/projection.py).                     *)
(***************************************************************************)
EXTENDS EvidenceService

CONSTANTS
    Facts,          \* the facts that may become known
    EventOf,        \* [edges of the facts -> canonical events]
    Nodes,          \* [keys -> properties]
    Subjects,       \* the accounts that are investigated
    LimitSet,       \* the limits that investigations are bounded by
    Cutoff,
    EarlierCutoffs

Known == UNION Facts

\* A fact is of finitely many relationships, each at the time of its event, and
\* an event is told by its ID (graph/projection.py).
ASSUME FactsAssumption ==
    /\ \A f \in Facts : IsFiniteSet(f)
    /\ \A x \in Known : /\ IsRelationship(x)
                       /\ EventOf[x].at = x.at /\ EventOf[x].id \in Nat
    /\ \A x, y \in Known : EventOf[x].id = EventOf[y].id => EventOf[x] = EventOf[y]

\* Accounts are investigated, at times, within limits of at least one of each
\* kind (investigation/models.py).
ASSUME LimitsAssumption ==
    /\ Subjects \subseteq {"Account"} \X Nat
    /\ Cutoff \in Nat /\ EarlierCutoffs \subseteq Nat
    /\ \A l \in LimitSet :
         /\ l.hops \in Nat /\ l.nodes \in Nat \ {0} /\ l.edges \in Nat \ {0}
         /\ l.related \in Nat \ {0} /\ l.events \in Nat \ {0} /\ l.timeline \in Nat \ {0}

VARIABLE view    \* the graph as far as it is built, or None

EmptyView == [nodes |-> Nodes, edges |-> {}, events |-> {}]

Add(f) ==
    /\ ~(f \subseteq view.edges)
    /\ view' = [view EXCEPT !.edges = @ \cup f, !.events = @ \cup {EventOf[x] : x \in f}]

Next == view # None /\ \E f \in Facts : Add(f)

\* In the other lanes of OfflinePrograms there is no view.
Built == view # None

-----------------------------------------------------------------------------
(* Properties *)

\* Instances of the properties of FeatureExtraction at the built view: the
\* component that the search finds is the least closed set, and the counts of
\* every vector extracted agree with it and with one another (extractors.py).
FeaturesAreConsistent == Built => ComponentIsLeast(view) /\ FeaturesAgree(view, Cutoff)

\* Instances of the properties of EvidenceService, for every subject and limits:
\* a neighbourhood and a timeline say what they leave out, and the related
\* accounts are those that the features count (service.py).
EvidenceIsHonest ==
    Built => \A a \in Subjects, l \in LimitSet :
        /\ NeighborhoodIsHonest(view, a, Cutoff, l)
        /\ TimelineIsHonest(view, a, Cutoff, l)
        /\ \A c \in EarlierCutoffs \cup {Cutoff} : PeersAreThoseOfTheFeatures(view, a, c, l)

\* An investigation reproduces the case as it was scored: whatever is learnt of
\* later times, the evidence of a cutoff and the vector that its score explains
\* stay what they were (service.py reads a projection of the whole history).
EvidenceIgnoresTheFuture ==
    [][Built => \A a \in Subjects, c \in EarlierCutoffs :
         (\A x \in view'.edges \ view.edges : x.at > c) =>
            /\ \A l \in LimitSet : Evidence(view', a, c, l) = Evidence(view, a, c, l)
            /\ ExplainedVector(view', a, c, Extract(view, a, c)) = Extract(view, a, c)]_view
================================================================================
