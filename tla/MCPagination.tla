---------------------------- MODULE MCPagination ----------------------------
EXTENDS Pagination

(* The API's default, one item a page, and more than the API allows.        *)
SomeLimits == {0, 1, 9}
=============================================================================
