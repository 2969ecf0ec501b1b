------------------------------- MODULE MCApi -------------------------------
(* Model checking of Api: of the routes that share a handler, one or two. *)
EXTENDS Api

MCServed ==
    {"GET /customers", "GET /customers/:id", "GET /catalogue", "GET /catalogue/images",
     "POST /customers", "POST /addresses", "DELETE /customers/:id", "GET /card", "GET /cart",
     "DELETE /cart", "POST /cart", "GET /login", "POST /register", "GET /orders",
     "GET /orders/*", "POST /orders", "slash", "unknown"}
=============================================================================
