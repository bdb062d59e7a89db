------------------------------- MODULE MCCApi -------------------------------
(***************************************************************************)
(* CApi for a program with one variable for each kind of object, and       *)
(* strings chosen to be mistaken for one another.                          *)
(***************************************************************************)
EXTENDS CApi, TLC

MCVariables == Kinds
MCKindOf == [v \in MCVariables |-> v]

Url(scheme, host, rest) == <<scheme, ":", "/", "/", host>> \o rest

\* One IP reads like another IP followed by a session; one origin is spelt in three ways.
MCArguments ==
    [ip      |-> { [text |-> <<"a">>, means |-> "a"],
                   [text |-> <<"a", "session", "=", "b">>, means |-> "a session=b"] },
     session |-> { [text |-> <<"b">>, means |-> "b"] },
     origin  |-> { [text |-> Url("https", "bank", <<>>), means |-> Url("https", "bank", <<>>)],
                   [text |-> <<" ">> \o Url("HTTPS", "BANK", <<"/", "path", "?", "q", "#", "f">>),
                    means |-> Url("https", "bank", <<>>)],
                   [text |-> Url("https", "Bank", <<"?", "q", "/">>), means |-> Url("https", "bank", <<>>)],
                   [text |-> Url("https", "shop", <<"/">>), means |-> Url("https", "shop", <<>>)] }]

\* A custom field may have the name of a built-in one.
MCCustomKeys == { [text |-> <<"ip">>, means |-> "ip"] }
MCCustomValues == { [text |-> <<"a">>, means |-> "a"] }

MCSortedKeys == << <<"ip">>, <<"origin">>, <<"session">>, <<"x-", "ip">> >>

MCLowercase ==
    [piece \in {"https", "HTTPS", ":", "/", "bank", "Bank", "BANK", "shop", "path",
                "?", "q", "#", "f", " "} |->
        CASE piece = "HTTPS"            -> "https"
          [] piece \in {"Bank", "BANK"} -> "bank"
          [] OTHER                      -> piece]

MCRawContexts == { <<"blob">> }

MCSymmetry == Permutations(Addresses)
=============================================================================
