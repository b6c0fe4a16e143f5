------------------------------- MODULE SignIn -------------------------------
(* x402-guard/src/signin.ts: a message, or a Wallet Standard signIn input,  *)
(* a wallet is about to sign.  A login must be one for the site the agent   *)
(* is talking to.                                                           *)
(*                                                                          *)
(* A text is a sequence of lines.  Each has a sort ("header" carries the    *)
(* sign-in phrase, "uri" reads like a URI line, "nonce" like a nonce line,  *)
(* "key" is a line whose signature is a credential), the site it names, the *)
(* break before it ("nl", or one some readers split lines on and others do  *)
(* not), and whether it is spelled just as the parser wants it.             *)
EXTENDS Sequences, Integers, FiniteSets

CONSTANTS
    Hosts,
    Issuer,     \* the host whose wallet keys are credentials (orbio.so)
    NoSite,     \* no site
    BadSite     \* one that cannot be read as a site

(* A header may leave its scheme out. *)
Sites == [scheme : {"https", "http"}, host : Hosts]
Named == [scheme : {"https", "http", "unsaid"}, host : Hosts]
Line == [sort : {"header", "uri", "nonce", "key", "text"}, site : Named \cup {NoSite},
         brk : {"nl", "other"}, exact : BOOLEAN]

Names(named, site) == named # NoSite /\ named.host = site.host
                      /\ named.scheme \in {site.scheme, "unsaid"}

(* resolveOrigin: the caller's origin, or the quote's resource without one. *)
ResolveOrigin(origin, resource) ==
    LET site == IF origin = NoSite THEN resource ELSE origin
    IN IF site = BadSite THEN NoSite ELSE site

(* The lines a reader that splits on \n alone sees: a line behind another   *)
(* break is the tail of the one before it.                                  *)
Begins(text, n) == n = 1 \/ text[n].brk = "nl"
LinesOf(text, sort) == {n \in DOMAIN text : text[n].sort = sort}
Seen(text, sort) == {n \in LinesOf(text, sort) : Begins(text, n)}

IsSignInText(text) ==
    LinesOf(text, "header") # {} \/ (Seen(text, "uri") # {} /\ Seen(text, "nonce") # {})

(* It parses strictly, and its domain, scheme and URI are the site's. *)
NamesSite(text, site) ==
    /\ \A n \in 2..Len(text) : text[n].brk = "nl"
    /\ LinesOf(text, "header") = {1} /\ text[1].exact /\ Names(text[1].site, site)
    /\ \E n \in Seen(text, "uri") :
          Seen(text, "uri") = {n} /\ text[n].exact /\ Names(text[n].site, site)

(* inspectSignInText. *)
CheckText(text, site) ==
    /\ LinesOf(text, "key") # {} => site # NoSite /\ site.scheme = "https" /\ site.host = Issuer
    /\ IsSignInText(text) => site # NoSite /\ NamesSite(text, site)

(* inspectSignInInput: a domain and a statement, each a sequence of lines   *)
(* once written out, and a URI.                                             *)
CheckInput(input, site) ==
    /\ site # NoSite
    /\ input.textual                        \* every field is text as given
    /\ Len(input.statement) <= 1            \* no line break in a field
    /\ Names(input.domain, site)             \* a host, and no scheme
    /\ input.uri = NoSite \/ Names(input.uri, site)

(* The message a wallet builds from such an input.  A statement stands      *)
(* where a reader takes one line for a statement, whatever it says.         *)
Written(input) ==
    <<[sort |-> "header", site |-> input.domain, brk |-> "nl", exact |-> TRUE]>>
    \o (IF input.statement = <<>> THEN <<>>
        ELSE <<[input.statement[1] EXCEPT !.sort = "text"]>> \o Tail(input.statement))
    \o <<[sort |-> "uri", site |-> IF input.uri = NoSite THEN input.domain ELSE input.uri,
          brk |-> "nl", exact |-> TRUE]>>
=============================================================================
