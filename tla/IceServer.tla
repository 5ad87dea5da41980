------------------------------ MODULE IceServer ------------------------------
(***************************************************************************)
(* IceServer::from_str (bns-core src/types/ice_transport/ice_server.rs):   *)
(* the text of an ICE server URL, as the node's configuration gives it,    *)
(* turned into the IceServer handed to DefaultTransport::start.           *)
(*                                                                         *)
(* A URL text is abstracted to the parts Url::parse splits it into (its    *)
(* scheme, whether "//" introduces an authority, userinfo, host, port and  *)
(* path, each a short string); the url that from_str formats is built     *)
(* from them by string concatenation, as format! does.                    *)
(***************************************************************************)
EXTENDS Sequences

\* The text "scheme:[//[user[:pass]@]host[:port]]path"; "" is an absent part.
UrlText(scheme, slashes, user, pass, host, port, path) ==
    [scheme |-> scheme, slashes |-> slashes, user |-> user, pass |-> pass,
     host |-> host, port |-> port, path |-> path]

\* Url::parse: only a URL with an authority ("//") has a host.
HasHost(u) == u.slashes /\ u.host # ""

\* IceServer::from_str: the scheme must be turn or stun and the URL must
\* have a host; the url kept is "scheme:host[:port]path" (userinfo dropped,
\* port only when present), the password defaults to "" and the credential
\* type to Password.
FromStr(u) ==
    IF u.scheme \notin {"turn", "stun"} \/ ~HasHost(u)
    THEN [ok |-> FALSE]
    ELSE [ok |-> TRUE,
          server |-> [urls |-> << u.scheme \o ":" \o u.host
                                  \o (IF u.port = "" THEN "" ELSE ":" \o u.port)
                                  \o u.path >>,
                      username |-> u.user,
                      credential |-> u.pass,
                      credential_type |-> "Password"]]

=============================================================================
