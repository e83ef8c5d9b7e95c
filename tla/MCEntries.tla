------------------------------ MODULE MCEntries ------------------------------
(***************************************************************************)
(* A small instance of Entries: two keys that a user names, one of which   *)
(* is also found under a usual name, and one in several places, of which   *)
(* one cannot be read and one is a fallback; a third has a passphrase.     *)
(***************************************************************************)
EXTENDS Entries, FiniteSets

CONSTANTS alias, host, far, root, me, ann, pass, bastion, words, runbook, Quiet,
          new, old, usual, locked, newFile, oldFile, deniedFile, movedFile, strayFile,
          usualFile, lockedFile, newKey, oldKey, strayKey, agentKey

Option == [flag |-> Quiet, path |-> None]
Identity(flag, path) == [flag |-> flag, path |-> path]

AllValues == {None, alias, host, far, root, me, ann, pass, bastion, words}
AllArgs == {Option} \union {Identity(flag, p) : flag \in IdentityFlags, p \in {new, old, usual, locked}}

Stated(r) == {f \in Fields : r[f] # Unset(f)} \union (IF r.extra = <<>> THEN {} ELSE {"extra"})

\* Requests that state one field besides the host, or an identity and arguments.
AllRequests ==
    {r \in [host : {host, alias}, user : {None, ann}, port : {0, 22, 2200},
            password : {None, pass}, identity : {None, new, old}, jump : {None, bastion},
            description : {None, words},
            extra : {<<>>, <<Option>>, <<Option, Identity("-i", old)>>,
                     <<Identity("--identity-file", new)>>}] :
        \/ Stated(r) = {}
        \/ r.host = host /\ (Cardinality(Stated(r)) = 1 \/ Stated(r) = {"identity", "extra"})}

Nothing == [host |-> None, user |-> None, port |-> 0, identities |-> <<>>, jump |-> None]
Says(ofAlias, ofHost) ==
    [name \in AllValues |-> CASE name = alias -> ofAlias
                             [] name = host -> ofHost
                             [] OTHER -> Nothing]
AllConfigs ==
    {Says(Nothing, [Nothing EXCEPT !.user = ann, !.port = 2200]),
     Says([Nothing EXCEPT !.host = far, !.port = 2200, !.identities = <<old, new>>,
                          !.jump = bastion], Nothing),
     Says([Nothing EXCEPT !.host = far, !.user = ann], [Nothing EXCEPT !.host = far])}

AllFiles == {newFile, oldFile, deniedFile, movedFile, strayFile, usualFile, lockedFile}
AllDisks ==
    {AllFiles,
     {newFile, movedFile, lockedFile},
     {newFile, deniedFile, strayFile, usualFile},
     {newFile, usualFile, lockedFile}}
AllSpots ==
    [p \in {new, old, usual, locked} |->
        CASE p = new -> <<newFile>>
          [] p = old -> <<oldFile, deniedFile, movedFile>>
          [] p = usual -> <<usualFile>>
          [] p = locked -> <<lockedFile>>]
Fallbacks == [p \in {new, old, usual, locked} |-> IF p = old THEN strayFile ELSE None]
KeyIn ==
    [f \in AllFiles |->
        CASE f \in {newFile, usualFile} -> newKey
          [] f \in {oldFile, movedFile} -> oldKey
          [] f = strayFile -> strayKey
          [] f = lockedFile -> Unreadable
          [] f = deniedFile -> NoAccess]
AgentKeys == <<agentKey>>
UsualNames == <<usual, locked, old>>
SSHNames == <<usual, locked>>
=============================================================================
