----------------------------- MODULE Plasticity -----------------------------
(***************************************************************************)
(* The plastic memory graph: links whose confidence and status follow from *)
(* the evidence for and against them, and the plans that refine a capsule  *)
(* after outcomes.  A link stands for its source, target, relation and     *)
(* scope; no two links here differ in scope alone.                         *)
(***************************************************************************)
EXTENDS Evidence, SequencesExt

VARIABLES
    evidence,       \* graph.evidence
    links           \* graph.links, by link

plasticityVars == <<evidence, links>>

PlasticityInit == evidence = {} /\ links = <<>>

\* Observations of links are a sequence, with weights that are numbers.
AreObservations(observations) ==
    /\ DOMAIN observations = 1..Len(observations) /\ Len(observations) \in Nat
    /\ \A i \in DOMAIN observations : observations[i].weight \in Int

-----------------------------------------------------------------------------
(* updatePlasticMemoryGraph                                                *)

\* What the id of a piece of evidence is made of: not its weight.
evidenceId(o) == [link |-> o.link, effect |-> o.effect, key |-> o.key, at |-> o.at]

WithIds(pool, ids) == {e \in pool : evidenceId(e) \in ids}

classifyLink(link, pool) ==
    LET supporting == WithIds(pool, link.support)
        support == Pressure(supporting)
        contradiction == Pressure(WithIds(pool, link.contradiction))
        confidence == Clamp(500 + Scale(480, support) - Scale(580, contradiction))
        independent == Cardinality(Keys(supporting))
    IN  [link EXCEPT
            !.confidence = confidence,
            !.status = FirstOf(<<
                <<contradiction >= 620 /\ contradiction >= Scale(850, support), "disputed">>,
                <<independent >= 3 /\ confidence >= 820, "verified">>,
                <<independent >= 2 /\ confidence >= 680, "supported">>,
                <<TRUE, "candidate">> >>)]

\* The graph, a record of evidence and links, after one observation.
Observe(graph, o) ==
    LET id == evidenceId(o)
        pool == IF \E e \in graph.evidence : evidenceId(e) = id
                THEN graph.evidence ELSE graph.evidence \cup {o}
        known == IF o.link \in DOMAIN graph.links THEN graph.links[o.link]
                 ELSE [support |-> {}, contradiction |-> {}, confidence |-> 500,
                       status |-> "candidate"]
        changed == IF o.effect = "supports" THEN [known EXCEPT !.support = @ \cup {id}]
                   ELSE [known EXCEPT !.contradiction = @ \cup {id}]
    IN  [evidence |-> pool,
         links |-> [l \in DOMAIN graph.links \cup {o.link} |->
                       IF l = o.link THEN classifyLink(changed, pool) ELSE graph.links[l]]]

\* observations is a sequence.
updatePlasticMemoryGraph(observations) ==
    LET graph == FoldLeft(Observe, [evidence |-> evidence, links |-> links], observations)
    IN  evidence' = graph.evidence /\ links' = graph.links

-----------------------------------------------------------------------------
(* deriveCapsuleRefinementPlans                                            *)

\* The action planned for the observations of one capsule, of which the most
\* confident of each independent context counts.
refinementAction(observations) ==
    LET counted == {o \in observations : \A p \in observations :
                        p.key = o.key => p.confidence <= o.confidence}
        supported == Cardinality({o \in counted :
                        o.verdict \in {"supported", "partially_supported"}})
        rejected == Cardinality({o \in counted :
                        o.verdict \in {"contradicted", "context_mismatch",
                                       "scope_mismatch", "truth_conflict"}})
        discriminators == Cardinality(UNION {o.discriminators : o \in counted})
    IN  FirstOf(<<
        <<supported >= 3 /\ rejected = 0, "reinforce">>,
        <<supported >= 2 /\ rejected >= 2 /\ discriminators >= 2, "split">>,
        <<supported >= 1 /\ rejected >= 1 /\ discriminators > 0, "narrow">>,
        <<rejected >= 2 /\ supported = 0, "dispute">>,
        <<supported >= 2 /\ discriminators > 0, "extend">>,
        <<TRUE, "retain_raw_trace">> >>)

-----------------------------------------------------------------------------
(* Properties                                                              *)

\* An outcome reported again under a key that already counts as much for a
\* link changes neither its confidence nor its status.
RepetitionMovesNoLink ==
    [][\A l \in DOMAIN links :
          (\A e \in evidence' \ evidence : e.link = l =>
              \E d \in evidence : d.link = l /\ d.effect = e.effect /\ d.key = e.key
                                    /\ d.weight >= e.weight)
          => links'[l].confidence = links[l].confidence /\ links'[l].status = links[l].status
      ]_plasticityVars
=============================================================================
