---------------------------- MODULE MCTransports ----------------------------
(* An instance of Transports for TLC: every status the code names, some it *)
(* does not, and an override that takes 409 for a success and 404 for a    *)
(* transient failure.                                                      *)
EXTENDS Transports

MCStatuses == {-1, 0, 200, 204, 301, 400, 401, 403, 404, 408, 409, 422, 429, 500,
               501, 502, 503, 504}
MCNoOverride == [s \in MCStatuses |-> "DEFAULT"]
MCOverrides ==
  {MCNoOverride, [MCNoOverride EXCEPT ![409] = "SUCCESS", ![404] = "RETRYABLE"]}
=============================================================================
