------------------------------ MODULE MCOpenUrl ------------------------------
(***************************************************************************)
(* Three runs of `forward open`, from a devbox and through a tunnel that   *)
(* ends on the laptop itself, under three laptop configurations.           *)
(***************************************************************************)
EXTENDS OpenUrl, TLC

CONSTANTS c1, c2, c3

Files == 12802
D1 == <<"d1">>
Tunnel == <<"127", "0", "0", "1">>
MCLabels == {"docs", "test", "d1", "127", "0", "1", "localhost", "*"}
MCChars == {"/", "a", "b"}
MCAddresses == {D1, Tunnel}
MCLoopback == {Tunnel}

Url(host, port, path) == [host |-> host, port |-> port, path |-> path]

Docs   == Url(<<"docs", "test">>, 443, <<"/", "a", "/", "b">>)
Other  == Url(<<"docs", "test">>, 443, <<"/", "a", "b">>)
Shown  == Url(<<"localhost">>, Files, <<"/", "a">>)
MCUrls == {Docs, Other, Shown}

Ask(url, origin) == [url |-> url, origin |-> origin]

(* The preview is the tunnel's own, and not the devbox's.                  *)
MCAsks ==
    c1 :> {Ask(Docs, D1), Ask(Other, D1), Ask(Shown, D1)} @@
    c2 :> {Ask(Docs, Tunnel)} @@
    c3 :> {Ask(Docs, D1), Ask(Shown, Tunnel)}

(* Two peers under an allowlist, with the built-in notification or a       *)
(* notifier; and a legacy configuration with no peer and no gate, which    *)
(* admits nothing but the tunnel.                                          *)
MCConfigs ==
    {[mode |-> "allowlist", multi |-> TRUE, peers |-> MCAddresses,
      allow |-> {Url(<<"*", "test">>, None, <<"a", "/">>)},
      notifier |-> n, clipboard |-> ~n] : n \in BOOLEAN} \cup
    {[mode |-> "auto", multi |-> FALSE, peers |-> {}, allow |-> {},
      notifier |-> FALSE, clipboard |-> FALSE]}
=============================================================================
