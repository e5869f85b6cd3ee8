----------------------------- MODULE GrpcStatus -----------------------------
(* The HTTP status under which a gRPC status is reported (protocols/grpc.rs). *)
EXTENDS Naturals

\* grpc_to_http_status
GrpcToHttpStatus(code) ==
    CASE code = 0 -> 200
      [] code = 1 -> 499
      [] code = 3 -> 400
      [] code = 4 -> 504
      [] code = 5 -> 404
      [] code \in {6, 10} -> 409
      [] code = 7 -> 403
      [] code = 8 -> 429
      [] code = 9 -> 412
      [] code = 11 -> 416
      [] code = 12 -> 501
      [] code = 14 -> 503
      [] code = 16 -> 401
      [] OTHER -> 500
=============================================================================
