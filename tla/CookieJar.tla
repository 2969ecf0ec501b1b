----------------------------- MODULE CookieJar -----------------------------
(***************************************************************************)
(* The cookies a page can see, and how it reads and changes them with      *)
(* jquery.cookie.  A jar maps the names of the cookies to what is stored   *)
(* for them; names, domain and path are one key, since every page of the   *)
(* shop lies in "/", which is also the path the server gives its cookies.  *)
(* A stored value is the text it encodes, and whether it can be decoded at *)
(* all; quotes and pluses are spellings of the same text.                  *)
(***************************************************************************)
Missing == "undefined"
Empty == ""

NoCookies == [name \in {} |-> Empty]

Encode(text) == [text |-> text, decodes |-> TRUE]

\* A value that cannot be decoded is ignored.
ParseCookieValue(stored) == IF stored.decodes THEN stored.text ELSE Missing

\* $.cookie(key)
Read(jar, key) == IF key \in DOMAIN jar THEN ParseCookieValue(jar[key]) ELSE Missing

\* $.cookie(key, text, options): one that has expired already is dropped at once.
Write(jar, key, text, expired) ==
    IF expired THEN [name \in DOMAIN jar \ {key} |-> jar[name]]
    ELSE [name \in DOMAIN jar \cup {key} |-> IF name = key THEN Encode(text) ELSE jar[name]]

\* A cookie that cannot be read is left where it is.
RemoveCookie(jar, key) ==
    IF Read(jar, key) = Missing THEN jar ELSE Write(jar, key, Empty, TRUE)

\* What the pages and the server ask of a cookie before they trust it.
Holds(jar, key) == Read(jar, key) \notin {Missing, Empty}
=============================================================================
