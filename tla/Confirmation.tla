---------------------------- MODULE Confirmation ----------------------------
(***************************************************************************)
(* Confirmation links (crates/symeraseme-core/src/confirmation.rs): the    *)
(* links to known brokers in the text of a reply. A text is a sequence of  *)
(* symbols: "https" and "http" are the schemes with their "://", "htt" is  *)
(* an "http" without; "acx" and "ACX" name a broker's host, "evil"         *)
(* another's, "www" is "www."; "b" is the backslash, "ctl" a control       *)
(* character, "%2" a percent escape and "%z" a broken one, "8" a digit,    *)
(* "?" also stands for "#"; " " and "<" end a link.                        *)
(***************************************************************************)
EXTENDS Integers, Sequences, SequencesExt, FiniteSets, FiniteSetsExt

CONSTANT Replies     \* texts of replies

VARIABLES body_text,     \* the text of the newest reply
          links          \* what extract_confirmation_links returned

confirmation_vars == <<body_text, links>>

Unread == <<"unread">>
ConfirmationInit == body_text \in Replies /\ links = Unread

-----------------------------------------------------------------------------
Separators == {" ", "<"}
Punctuation == {".", ":"}

\* The part of s before the first of the symbols.
UpTo(s, symbols) ==
    LET ends == {i \in DOMAIN s : s[i] \in symbols}
    IN  SubSeq(s, 1, IF ends = {} THEN Len(s) ELSE Min(ends) - 1)
After(s, n) == SubSeq(s, n + 1, Len(s))

trim_end(s) ==
    LET kept == {i \in DOMAIN s : s[i] \notin Punctuation}
    IN  SubSeq(s, 1, IF kept = {} THEN 0 ELSE Max(kept))

\* Faulty variant: a host that ends in a broker's name is taken for the broker.
known_Suffix(host) == host # <<>> /\ Last(host) \in {"acx", "ACX"}
\* One "www." is stripped, and the rest is on the list.
known(host) ==
    (IF host # <<>> /\ Head(host) = "www" THEN Tail(host) ELSE host) \in {<<"acx">>, <<"ACX">>}

authority(url) == UpTo(After(url, 1), {"/", "?"})

parse_allowed_url(url) ==
    LET host == UpTo(authority(url), {":"})
        port == After(authority(url), Len(host) + 1)
    IN  /\ url # <<>> /\ Head(url) = "https"
        /\ {"%z", "ctl", "b"} \cap ToSet(url) = {}
        /\ "@" \notin ToSet(authority(url))
        /\ ToSet(port) \subseteq {"8"}
        /\ known(host)

\* decoded_path_len counts an escape as one, the length of a link as three.
path_len(url) == Len(UpTo(After(url, 1 + Len(authority(url))), {"?"}))
width(url) == Len(url) + 2 * Quantify(DOMAIN url, LAMBDA i : url[i] = "%2")

\* The links from the i-th symbol on, in the order of the text.
found(text) ==
    LET from[i \in Nat] ==
            IF i > Len(text) THEN <<>>
            ELSE IF text[i] \notin {"https", "http"} THEN from[i + 1]
            ELSE LET candidate == <<text[i]>> \o UpTo(After(text, i), Separators)
                     rest == from[i + Len(candidate)]
                     url == trim_end(candidate)
                 IN  IF parse_allowed_url(url)
                     THEN <<url>> \o SelectSeq(rest, LAMBDA u : u # url) ELSE rest
    IN  from[1]

\* The shortest path first, then the shortest link, else as in the text.
sorted_links(urls) ==
    LET Before(i, j) ==
            \/ path_len(urls[i]) < path_len(urls[j])
            \/ /\ path_len(urls[i]) = path_len(urls[j])
               /\ \/ width(urls[i]) < width(urls[j])
                  \/ width(urls[i]) = width(urls[j]) /\ i <= j
        rank(i) == Quantify(DOMAIN urls, LAMBDA j : Before(j, i))
    IN  [k \in DOMAIN urls |-> urls[CHOOSE i \in DOMAIN urls : rank(i) = k]]

extract_confirmation_links ==
    /\ links = Unread
    /\ links' = sorted_links(found(body_text))
    /\ UNCHANGED body_text

ConfirmationNext == extract_confirmation_links
ConfirmationSpec == ConfirmationInit /\ [][ConfirmationNext]_confirmation_vars

-----------------------------------------------------------------------------
(* What a link promises. *)

\* The host a browser opens: it reads a backslash as a slash, and drops what
\* comes before the last "@" and the port.
BrowserHost(url) ==
    LET whole == UpTo(After(url, 1), {"/", "?", "b"})
        ats == {i \in DOMAIN whole : whole[i] = "@"}
    IN  UpTo(After(whole, IF ats = {} THEN 0 ELSE Max(ats)), {":"})

\* "Extract unique HTTPS links to known broker hosts": whatever surrounds it, a
\* link that is returned stands in the text, goes to a broker over HTTPS as a
\* browser reads it, and is returned once; paths do not get shorter.
LinksAreTrusted ==
    links # Unread =>
      /\ \A i \in DOMAIN links :
           /\ Head(links[i]) = "https"
           /\ BrowserHost(links[i]) \in {<<"acx">>, <<"ACX">>, <<"www", "acx">>, <<"www", "ACX">>}
           /\ \E n \in 0..Len(body_text) : IsPrefix(links[i], After(body_text, n))
      /\ \A i, j \in DOMAIN links : /\ links[i] = links[j] => i = j
                                    /\ i < j => path_len(links[i]) <= path_len(links[j])

\* A plain link that stands between separators is found, whatever comes before.
PlainLinksAreFound ==
    links # Unread =>
      \A i, j \in DOMAIN body_text :
        LET link == SubSeq(body_text, i, j) IN
        /\ i <= j /\ link \in {<<"https", "acx">>, <<"https", "acx", "/">>}
        /\ i = 1 \/ body_text[i - 1] \in Separators
        /\ j = Len(body_text) \/ body_text[j + 1] \in Separators
        => link \in ToSet(links)

\* The links a confirmation may follow are the broker's, and all of them.
ConfirmationCorrect == LinksAreTrusted /\ PlainLinksAreFound

=============================================================================
