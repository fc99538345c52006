-------------------------------- MODULE MCApm --------------------------------
(***************************************************************************)
(* Small instances of the APM side of the agent: the OTLP pipeline, the    *)
(* sampler, the usage counters and the latency summaries. They share no    *)
(* state, so a behaviour moves one of them, part, and the others stay as   *)
(* they start.                                                             *)
(***************************************************************************)
EXTENDS ApmPipeline, ApmSampler, ApmUsage

VARIABLES
  part,
  sketch, added, wire, reader   \* of the latency summaries

sketchVars == <<sketch, added, wire, reader>>
vars == <<part, pipeVars, samplerVars, usageVars, sketchVars>>

-----------------------------------------------------------------------------
MCBatches == {"b1", "b2"}
MCForms == [b \in MCBatches |-> IF b = "b1" THEN {"good"} ELSE {"good", "broken", "refused"}]
Span(id, trace, error, event) == [id |-> id, trace |-> trace, error |-> error, event |-> event]

\* A trace with a security event and one with an error, of which a second batch brings a
\* span that is normal by itself.
MCSpansOf == [b \in MCBatches |->
               IF b = "b1"
               THEN {Span(1, "t1", FALSE, FALSE), Span(2, "t1", FALSE, TRUE), Span(3, "t2", TRUE, FALSE)}
               ELSE {Span(4, "t2", FALSE, FALSE)}]

Sketch == INSTANCE LatencySketch
  WITH Indexes <- {-2, 1, 3}, Zero <- -99, Quarters <- {0, 25, 50, 90, 100}, MaxAdds <- 4

-----------------------------------------------------------------------------
\* Every component starts; the pipeline starts in one way only when it will not move.
Init ==
  /\ part \in {"pipeline", "sampler", "usage", "sketch"}
  /\ PipeInit /\ (part # "pipeline" => form["b2"] = "good")
  /\ SamplerInit
  /\ UsageInit
  /\ Sketch!SketchInit

Next ==
  /\ UNCHANGED part
  /\ IF part = "pipeline" THEN PipeNext ELSE UNCHANGED pipeVars
  /\ IF part = "sampler" THEN SamplerNext ELSE UNCHANGED samplerVars
  /\ IF part = "usage" THEN UsageNext ELSE UNCHANGED usageVars
  /\ IF part = "sketch" THEN Sketch!SketchNext ELSE UNCHANGED sketchVars

Spec == Init /\ [][Next]_vars

-----------------------------------------------------------------------------
(* Properties *)

\* Each component keeps its types.
ApmTypeOK ==
  CASE part = "pipeline" -> PipeTypeOK
    [] part = "sampler" -> SamplerTypeOK
    [] part = "usage" -> UsageTypeOK
    [] part = "sketch" -> Sketch!SketchTypeOK

\* The sampler keeps to its rate; what Flush of the usage counters forgets the server
\* has, and a row that claims to be complete counts every span and trace of its minute.
CountsHeld == BudgetHeld /\ UsageExact

\* A quantile of summaries that were sent and merged is that of all values in order.
StatisticsExact == part = "sketch" => Sketch!QuantileExact
=============================================================================
