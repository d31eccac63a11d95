---------------------------- MODULE MCHttpClient ----------------------------
(* Values of the constants of HttpClient.                                  *)
EXTENDS HttpClient

NoLimit == -1
=============================================================================
