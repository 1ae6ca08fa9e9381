------------------------------ MODULE MCTraffic ------------------------------
(***************************************************************************)
(* The lists of the run: every kind of text for one host or one program in *)
(* one of the lists; and all lists of three plain texts, for two hosts and *)
(* a program, in both.  The second host has a name without a dot, and the  *)
(* two others names and addresses of the local network.                    *)
(***************************************************************************)
EXTENDS Traffic

CONSTANTS site, other, inner, near, app

Text == [pre |-> "", url |-> FALSE, slash |-> FALSE, exe |-> FALSE, ip |-> FALSE,
         star |-> "none", shared |-> FALSE, of |-> site]
Exe(p) == [Text EXCEPT !.of = p, !.exe = TRUE]

SiteTexts ==
  {Text,                                                  \* site.example
   [Text EXCEPT !.star = "leading"],                      \* *.example
   [Text EXCEPT !.star = "inside"],                       \* si*.example
   [Text EXCEPT !.url = TRUE, !.slash = TRUE],            \* https://site.example/
   [Text EXCEPT !.slash = TRUE],                          \* site.example/page
   [Text EXCEPT !.ip = TRUE],                             \* 203.0.113.5
   [Text EXCEPT !.ip = TRUE, !.slash = TRUE]}             \* 203.0.113.0/24

AppTexts ==
  {Exe(app),                                              \* app.exe
   [Text EXCEPT !.of = app, !.pre = "exe:"],              \* exe:app
   [Exe(app) EXCEPT !.slash = TRUE],                      \* C:\app.exe
   [Text EXCEPT !.of = app, !.pre = "svc:"],              \* svc:own
   [Text EXCEPT !.of = app, !.pre = "svc:", !.shared = TRUE]}

\* Texts that would take the tunnel's own ways from it
OwnTexts ==
  {[Text EXCEPT !.of = h, !.ip = ip] : h \in {"vps", Squid}, ip \in BOOLEAN}
    \cup {Exe("sing-box"), Exe("python"), Exe("browser")}

\* Names of the local network
NearTexts == {[Text EXCEPT !.of = inner], [Text EXCEPT !.of = near],
              [Text EXCEPT !.of = near, !.ip = TRUE]}

Plain == {Text, [Text EXCEPT !.of = other], Exe(app)}

OneText == UNION {{[vpn |-> {t}, bypass |-> {}], [vpn |-> {}, bypass |-> {t}]} :
                    t \in SiteTexts \cup AppTexts \cup OwnTexts \cup NearTexts}

MCSites == {site, other, inner, near}
MCNames == [h \in MCSites |-> CASE h = other -> "plain" [] h = inner -> "internal"
                                [] OTHER -> "dotted"]
MCNets == [h \in MCSites |-> IF h = near THEN "private" ELSE "public"]
MCApps == {app}
MCLists == OneText \cup [vpn : SUBSET Plain, bypass : SUBSET Plain]
==============================================================================
