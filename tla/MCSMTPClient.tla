--------------------------- MODULE MCSMTPClient ---------------------------
(* Two letters with a different number of recipients.                      *)
EXTENDS SMTPClient
Letter(name, to) == [from |-> "zpr", to |-> to, subject |-> name, message |-> name]
MCLetters == {Letter("one", <<"a">>), Letter("two", <<"b", "a">>)}
=============================================================================
