------------------------------ MODULE MCStorage ------------------------------
(* Model-checking instances of what outlives a call: the DNS caches of      *)
(* StaleResolver, Cookies, the files of Downloads and the pooled buffers of *)
(* Bodies.  A run explores the behaviours of each with the others at rest.  *)
EXTENDS StaleResolver, Downloads, Cookies, Bodies

(* A resource of three pieces that is replaced by one of two. *)
TwoVersions == <<3, 2>>

(* Cookies: of a path, expired, through another proxy with and without a    *)
(* partition, for a public suffix, by one, and for the domain of another.   *)
Com == <<"com">>
Plain ==
  [proxy |-> "p", host |-> <<"com", "site">>, domain |-> <<>>, path |-> <<>>, secure |-> FALSE,
   partitioned |-> FALSE, part |-> "top", expired |-> FALSE]
EightCookies ==
  {Plain, [Plain EXCEPT !.path = <<"a">>], [Plain EXCEPT !.expired = TRUE],
   [Plain EXCEPT !.proxy = "q", !.partitioned = TRUE],
   [Plain EXCEPT !.proxy = "q"], [Plain EXCEPT !.domain = Com],
   [Plain EXCEPT !.host = Com], [Plain EXCEPT !.host = <<"com", "other">>, !.domain = <<"com", "site">>]}
PublicSuffixes == {Com}

(* Any body modifier, alone or after the argument of a typed call; the      *)
(* other requests send a multipart form.                                    *)
AtMostOne == {<<>>} \cup {<<k>> : k \in BodyKinds}
OthersSendForms(p, modifiers, w) ==
  /\ plan = [q \in Posts |-> IF q = p THEN modifiers ELSE <<"multipart">>]
  /\ way = [q \in Posts |-> IF q = p THEN w ELSE "std"]

VARIABLE focus   \* the component whose behaviour is explored

allVars == <<focus, vars, downloadVars, cookieVars, bodyVars>>

Only(component) ==
  /\ focus = component
  /\ component # "dns" => staleDelay = 0
  /\ component # "cookies" => given = [s \in Setters |-> Plain]
  /\ \E modifiers \in (IF component = "bodies" THEN Plans ELSE {<<"multipart">>}),
        w \in (IF component = "bodies" THEN Ways ELSE {"std"}) :
       OthersSendForms(CHOOSE q \in Posts : TRUE, modifiers, w)
  /\ Init /\ DownloadInit /\ CookieInit /\ BodiesInit
  /\ now = 1 + 2 * staleDelay   \* the longest ages take no delayed lookup

MCNext ==
  \/ focus = "dns" /\ Next /\ UNCHANGED <<focus, downloadVars, cookieVars, bodyVars>>
  \/ focus = "download" /\ DownloadNext /\ UNCHANGED <<focus, vars, cookieVars, bodyVars>>
  \/ focus = "cookies" /\ CookieNext /\ UNCHANGED <<focus, vars, downloadVars, bodyVars>>
  \/ focus = "bodies" /\ BodiesNext /\ UNCHANGED <<focus, vars, downloadVars, cookieVars>>

MCSpec ==
  /\ \E component \in {"dns", "download", "cookies", "bodies"} : Only(component)
  /\ [][MCNext]_allVars

(* Cookies set through one proxy are never those of another, over first     *)
(* uses at the same time, evictions and restarts; and a jar that is not     *)
(* dirty is saved (cookie/).                                                *)
CookiesKept == SessionsIndependent /\ CleanMeansSaved
=============================================================================
