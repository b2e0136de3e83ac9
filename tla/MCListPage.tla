----------------------------- MODULE MCListPage -----------------------------
(* A list page with three rows, two to a page, for TLC.                    *)
EXTENDS ListPage

AllViews == DOMAIN Filters
ThreeRows == 1 .. 3
FirstAndLast == {1, 3}
=============================================================================
