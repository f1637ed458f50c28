--------------------------- MODULE MCOnlinePredictor ---------------------------
(***************************************************************************)
(* Instances of OnlinePredictor.  The windows hold two or three residuals    *)
(* with a trimmed fraction of a third, so that the trimming and the          *)
(* quantile both bite, as 5% and 95% do in windows of 32 and more.          *)
(***************************************************************************)
EXTENDS OnlinePredictor

Box(intercept, decodeWeight, tokenWeight, mostDecodes, mostTokens) ==
    [intercept |-> intercept,
     weight |-> [f \in Features |-> IF f = "decodes" THEN decodeWeight ELSE tokenWeight],
     low |-> [f \in Features |-> 0],
     high |-> [f \in Features |-> IF f = "decodes" THEN mostDecodes ELSE mostTokens]]

MCRidge == [k \in {"decode_only", "prefill_only"} |->
               IF k = "decode_only" THEN Box(6, 1, 0, 4, 0) ELSE Box(2, 0, 4, 0, 2)]

(* Two segments; the second's model has a negative weight. *)
MCSegments == <<[first |-> 1, last |-> 1, model |-> Box(15, 1, 3, 1, 3)],
                [first |-> 2, last |-> 3, model |-> Box(30, -2, 2, 2, 3)]>>

(* Inside the support, outside it above, outside every segment, and empty.   *)
MCBatches == {[decodes |-> d, tokens |-> t] :
                 <<d, t>> \in {<<0, 0>>, <<0, 2>>, <<0, 4>>, <<3, 0>>, <<5, 0>>,
                              <<1, 2>>, <<2, 2>>, <<3, 2>>, <<5, 2>>}}

Settings(window, minimum, mean, margin) ==
    [window |-> window, minimum |-> minimum, mean |-> mean, margin |-> margin]

MCCalibration == [k \in Kinds |-> IF k = "mixed" THEN Settings(3, 2, 0, 2)
                                  ELSE Settings(2, 2, 1, 1)]
MCNoises ==
    [b \in MCBatches |-> CASE b.tokens = 0 -> {-3, 9}
                          [] b.decodes = 0 -> {-2, 8}
                          [] OTHER -> {-4, 10}]
================================================================================
