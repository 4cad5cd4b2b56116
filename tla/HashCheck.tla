----------------------------- MODULE HashCheck -----------------------------
(***************************************************************************)
(* The HashSHA256 header: how the agent sets it and how the handlers check *)
(* it (utils.CalculateHash, internal/metrics/sender/http.go, and           *)
(* checkHash and UpdateJSONHandler of internal/api/handler.go).            *)
(*                                                                         *)
(* The hash is abstracted to what comparing it can tell: whether it was    *)
(* made of this body with this key.                                        *)
(***************************************************************************)

CONSTANT NoKey      \* the empty key: started without one

\* The agent sets no header without a key; CalculateHash returns "" for it.
HashHeader(agentKey, serverKey) ==
    CASE agentKey = NoKey     -> "none"
      [] agentKey # NoKey /\ agentKey = serverKey -> "right"
      [] agentKey # NoKey /\ agentKey # serverKey -> "wrong"

\* Mutant of HashRefused: the hash is not compared.
HashNeverRefused(route, serverKey, header) == FALSE

\* A server with a key insists on the right hash for a batch (checkHash refuses
\* a missing one); a single JSON metric may come without one; the other routes
\* do not look at it.
HashRefused(route, serverKey, header) ==
    /\ serverKey # NoKey
    /\ \/ route = "updates" /\ header # "right"
       \/ route = "updateJSON" /\ header = "wrong"
=============================================================================
