------------------------------ MODULE MCEgress ------------------------------
(***************************************************************************)
(* Constants for model-checking Egress.                                    *)
(***************************************************************************)
EXTENDS Egress

X == <<"x", "org">>
SubX == <<"s", "x", "org">>

\* Subdomains only, a domain with its subdomains, another domain.
TwoLists == {{Entry(X, "star"), Entry(<<"y">>, "plain")}, {Entry(SubX, "dot")}}
ThreeHosts == {X, SubX, <<"y">>}

Server == [blockPrivate |-> TRUE, allowLoopback |-> FALSE, ports |-> {}]
Loose == [blockPrivate |-> FALSE, allowLoopback |-> TRUE, ports |-> {0}]
TwoPolicies == {Server, Loose}

Web(host, dirs, name) ==
  <<"web", [host |-> host, dirs |-> dirs, name |-> name, rev |-> ""]>>
Debian == <<"deb", "debian", "org">>

Go(name, rev) ==
  <<"gomod", [host |-> <<"proxy">>, dirs |-> {"@v"}, name |-> name, rev |-> rev]>>

SomeUrls ==
  {Web(Debian, {}, <<n, "gz">>) :
     n \in {"Packages", "Sources", "Contents", "Contents-amd64"}}
  \cup {Web(Debian, {}, <<n, "gpg">>) : n \in {"Release", "InRelease"}}
  \cup {Web(Debian, {}, <<"tool_1", "deb">>)}
  \cup {Web(Debian, {"i18n"}, <<"Translation-en", "bz2">>),
        Web(Debian, {"by-hash"}, <<"0a1b">>),
        Web(<<"cdn">>, {"repodata"}, <<"primary", "xml", "gz">>),
        Web(GitHub, {"releases/download"}, <<"tool">>),
        Web(<<"eu", "npmjs", "org">>, {}, <<"p">>),
        Web(<<"localhost">>, {}, <<"tool", "zip">>)}
  \cup {Go(<<"list">>, ""), Go(<<"v1", "0", "zip">>, "version"),
        Go(<<"v1", "0", "info">>, "version"), Go(<<"main", "info">>, "main")}
  \cup {<<"gomod", [host |-> <<"proxy">>, dirs |-> {}, name |-> <<"@latest">>,
                    rev |-> ""]>>}
  \cup {<<"hf", [host |-> <<"hub">>, dirs |-> {}, name |-> <<"model", "bin">>,
                 rev |-> r]>> : r \in {"main", "SHA", "sha"}}
=============================================================================
