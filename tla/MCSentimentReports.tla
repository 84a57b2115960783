------------------------- MODULE MCSentimentReports -------------------------
(* Three runs of two use cases, one scored by the fallback; spans of a few *)
(* moments and limits of two rows.                                         *)
EXTENDS SentimentReports

CONSTANTS j1, j2, j3

AnalysedOf == [j \in Jobs |->
    CASE j = j1 -> [polarity |-> "NEGATIVE", score |-> 20, useCase |-> "support"]
      [] j = j2 -> [polarity |-> "NEUTRAL", score |-> Nothing, useCase |-> "support"]
      [] j = j3 -> [polarity |-> "VERY_POSITIVE", score |-> 99, useCase |-> "sales"]
      [] OTHER -> Nothing]

(* A drift report is read in one of the stores and where no call failed:   *)
(* it looks at the analyses alone, which are the same rows in both stores, *)
(* and a call that fails leaves some out, as one still to come does.       *)
OneStoreReported == sparkline # Nothing => kind = "sqlite" /\ faults = 0
=============================================================================
