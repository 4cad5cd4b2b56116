------------------------------ MODULE Handlers ------------------------------
(***************************************************************************)
(* The HTTP handlers (internal/api/handler.go) and the service behind them *)
(* (internal/metrics/service/service.go), as far as they keep no state:    *)
(* which requests they refuse, what they ask of the repository, and which  *)
(* status they answer with.                                                *)
(*                                                                         *)
(* A request is a record [route, ms].  A value or a delta of the path that *)
(* is no number, or that is missing in the JSON, is Nil; one the JSON      *)
(* decoder refuses leaves no metrics at all.  The check of the hash comes  *)
(* before all of this (module HashCheck).                                  *)
(***************************************************************************)
EXTENDS Metrics

\* POST /update/{type}/{name}/{value}, /update and /updates; GET
\* /value/{type}/{name}, POST /value and GET /.
Routes == {"update", "updateJSON", "updates", "value", "valueJSON", "list"}

OneUpdate == {"update", "updateJSON"}
OneValue == {"value", "valueJSON"}

Writing == OneUpdate \cup {"updates"}

\* 400 (404 for a path of /value that is too short) before the repository is
\* asked.  A batch may hold metrics of any type and
\* without a value: they are left to the repository.
Refused(r) ==
    \/ r.route # "list" /\ r.ms = <<>>
    \/ r.route \in OneUpdate \cup OneValue /\ r.ms[1].type \notin Kinds
    \/ r.route \in OneUpdate /\ r.ms[1].val = Nil

\* UpdateMetricJSON answers a counter with what GetCounter returns afterwards.
ReadsBack(r) == r.route = "updateJSON" /\ r.ms[1].type = "counter"

\* The service drops the errors of UpdateGauge and UpdateCounter, and the error
\* of GetCounter in UpdateMetricJSON, which then answers 0.
UpdateStatus == 200

ListStatus(failed) == IF failed THEN 500 ELSE 200

BatchStatus(failed) == IF failed THEN 500 ELSE 200

\* Mutant of ValueStatus: GetGauge drops the error as GetCounter does.
ValueStatusDropped(type, failed, found) == IF failed \/ ~found THEN 404 ELSE 200

\* GetCounter of the service drops the error of the repository: it returns "not
\* found" where GetGauge returns the error.
ValueStatus(type, failed, found) ==
    CASE failed /\ type = "gauge" -> 500
      [] failed /\ type = "counter" -> 404
      [] ~failed -> IF found THEN 200 ELSE 404
=============================================================================
