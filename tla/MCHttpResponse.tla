-------------------------- MODULE MCHttpResponse --------------------------
(* Model-checking instance of HttpResponse: the kinds of chunk a client    *)
(* delivers, as the cfgs choose them.                                      *)
EXTENDS HttpResponse

DynamicOnly == {"dynamic"}
AnyKind == {"dynamic", "const"}
=============================================================================
