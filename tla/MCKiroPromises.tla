--------------------------- MODULE MCKiroPromises ---------------------------
(* The smallest instance of KiroPromises: one request, one account.         *)
EXTENDS KiroPromises

OneStep == <<1>>
=============================================================================
