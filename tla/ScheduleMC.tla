----------------------------- MODULE ScheduleMC -----------------------------
(* Catalogues for TLC.                                                     *)
EXTENDS Schedule

Entry(kind, label, writes, reads, emits, listens) ==
    [kind |-> kind, label |-> label, writes |-> writes, reads |-> reads,
     emits |-> emits, listens |-> listens,
     whole |-> FALSE, splits |-> FALSE, deferred |-> FALSE]

Update == 4

\* Pairs of one label that may run in parallel, for each conflict that needs an
\* edge to keep them apart: the whole world (stepper and pusher), two writers
\* (mover and snapper), two emitters (snapper and counter) and two listeners
\* (counter and logger) that share nothing else, a writer and a reader (mover and
\* logger), an emitter and a listener (mover and counter).  Two that feed each
\* other (pusher and mover) are in different labels.
MCCatalogue ==
    [stepper |-> [Entry("parallel", FixedUpdate, {}, {}, {}, {}) EXCEPT !.whole = TRUE],
     pusher  |-> Entry("parallel", FixedUpdate, {"vel"}, {"pos"}, {"hit"}, {}),
     mover   |-> Entry("parallel", Update, {"pos"}, {"vel"}, {"hit"}, {}),
     snapper |-> Entry("nonsend", Update, {"pos"}, {}, {"note"}, {}),
     counter |-> Entry("parallel", Update, {}, {}, {"note"}, {"hit"}),
     logger  |-> [Entry("nonsend", Update, {}, {"pos"}, {}, {"hit"}) EXCEPT !.splits = TRUE],
     saver   |-> Entry("exclusive", Update, {}, {}, {}, {})]

\* Two systems that write one component, and one that reads it.
LateCatalogue ==
    [mover   |-> Entry("parallel", Update, {"pos"}, {}, {}, {}),
     warper  |-> Entry("parallel", Update, {"pos"}, {}, {}, {}),
     painter |-> Entry("parallel", Update, {}, {"pos"}, {}, {})]

MCOrders == {<<Update, FixedUpdate>>}
=============================================================================
