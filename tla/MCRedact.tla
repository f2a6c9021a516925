------------------------------ MODULE MCRedact ------------------------------
(* Instances of Redact for TLC.                                            *)
EXTENDS Redact

CONSTANTS a, b

MCSymbols ==
    {Plain(a), Plain(b), Coded(<<a, b>>), Coded(<<b, b>>), Coded(<<a>>), Junk}

\* Of these every run decodes as a whole, if no character is in runs.
MCCleanSymbols == {Plain(a), Coded(<<a, b>>), Coded(<<b, b>>)}

\* One value is a part of another, and a value may be empty.
MCValues == {<<>>, <<a>>, <<b>>, <<a, b>>, <<b, a>>}

=============================================================================
