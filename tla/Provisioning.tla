----------------------------- MODULE Provisioning -----------------------------
(***************************************************************************)
(* HubRegistry with secure hubs: what CreateHubEx does between the look at *)
(* the address and the start of the pump of a hub that is to have an       *)
(* identity, and SetSecurityDir, which says where the key files are.       *)
(*                                                                         *)
(* SecurityPaths resolves and latches the directory under the network's    *)
(* lock; ProvisionSelf then finds or makes the hub's keys, publishes their *)
(* two halves and loads the revocation list, one file after another with   *)
(* no lock held, any of which may be refused.  Whoever creates the hub     *)
(* next finds the files as they were left.                                 *)
(*                                                                         *)
(* Nobody else removes a key file.  The library finds a key or makes one,  *)
(* as one step, and a hub that has set its agreement key can tell its      *)
(* public half.                                                            *)
(***************************************************************************)
EXTENDS HubRegistry

CONSTANTS
  Dirs,      \* directories
  Beside,    \* the one beside the module
  NoDir,     \* no directory
  Plain,     \* Plain[a]: address a, what a file name cannot hold substituted or cut
  Mangled,   \* addresses that are not that already
  Hash       \* Hash[a]: a hash of the exact address

ASSUME DirsAssumption == Beside \in Dirs /\ NoDir \notin Dirs

VARIABLES
  secDir,    \* the network's m_csSecDir
  secUsed,   \* m_bSecUsed
  keyFiles,  \* the files of each stem in each directory
  revoked,   \* directories with a revocation list
  prov,      \* how far each thread has come with the hub it makes
  hubDir     \* each hub's own m_csSecDir

secVars  == <<secDir, secUsed>>
diskVars == <<keyFiles, revoked>>
provVars == <<secVars, diskVars, prov, hubDir>>

\* A hash is appended as soon as anything was substituted or cut.
SecurityStemOf(a) == IF a \in Mangled THEN <<Plain[a], Hash[a]>> ELSE <<Plain[a]>>

Stems     == {SecurityStemOf(a) : a \in Addresses}
Files     == {"key", "key.pub", "agree.pub"}
Stages    == {"paths", "identity", "agreement", "publish", "revocation", "held"}
Unstarted == [stage |-> "paths", dir |-> NoDir]

ProvTypeOK ==
  /\ secDir \in Dirs \cup {NoDir} /\ secUsed \in BOOLEAN
  /\ keyFiles \in [Dirs \X Stems -> SUBSET Files]
  /\ revoked \subseteq Dirs
  /\ prov \in [Threads -> [stage : Stages, dir : Dirs \cup {NoDir}]]
  /\ hubDir \in [Hubs -> Dirs \cup {NoDir}]

Place(t) == <<prov[t].dir, SecurityStemOf(request[t].address)>>

-----------------------------------------------------------------------------
(* SetSecurityDir, and SecurityPaths *)

\* "" goes back to the directory beside the module.  Refused once latched, and
\* for a directory that cannot be made: neither changes anything.
SetSecurityDir(t, dir) ==
  /\ At(t, "idle") /\ t \in holders /\ ~secUsed
  /\ secDir' = dir
  /\ UNCHANGED <<vars, secUsed, diskVars, prov, hubDir>>

\* Mutant: the directory is not latched.
EnsureSecurityDirUnlatched ==
  /\ secDir' = IF secDir = NoDir THEN Beside ELSE secDir
  /\ UNCHANGED secUsed

EnsureSecurityDirLocked ==
  /\ secDir' = IF secDir = NoDir THEN Beside ELSE secDir
  /\ secUsed' = TRUE

\* What any refusal comes to: no hub, and the files as they are.
Refuse(t) ==
  /\ Answer(t, "failed") /\ Return(t)
  /\ prov' = [prov EXCEPT ![t] = Unstarted]
  /\ UNCHANGED <<holders, kernel, instance, listHubs, hub, hubDir>>

Advance(t, stage) ==
  prov' = [prov EXCEPT ![t].stage = stage] /\ UNCHANGED <<vars, secVars, hubDir>>

Provisions(t, stage) == At(t, "start") /\ prov[t].stage = stage

\* The directory beside the module may not be had, which changes nothing; the
\* revocation list may not be written, by when the directory is latched.
SecurityPaths(t) ==
  /\ Provisions(t, "paths")
  /\ \/ /\ EnsureSecurityDirLocked
        /\ revoked' = revoked \cup {secDir'}
        /\ prov' = [prov EXCEPT ![t] = [stage |-> "identity", dir |-> secDir']]
        /\ UNCHANGED <<vars, hubDir>>
     \/ /\ EnsureSecurityDirLocked
        /\ secDir' \notin revoked
        /\ Refuse(t) /\ UNCHANGED revoked
     \/ /\ secDir = NoDir
        /\ Refuse(t) /\ UNCHANGED <<secVars, revoked>>
  /\ UNCHANGED keyFiles

-----------------------------------------------------------------------------
(* ProvisionSelf *)

\* ProvisionAuth finds the key, or makes one and publishes it; a key that was
\* left without its public half may be published now, or not.
ProvisionAuth(t) ==
  /\ Provisions(t, "identity")
  /\ \E made \in {{}, {"key"}, {"key", "key.pub"}} :
       /\ keyFiles' = [keyFiles EXCEPT ![Place(t)] = @ \cup made]
       /\ \/ /\ "key" \in keyFiles[Place(t)] \/ made = {"key", "key.pub"}
             /\ Advance(t, "agreement")
          \/ Refuse(t) /\ UNCHANGED secVars
  /\ UNCHANGED revoked

\* The private agreement key is read by nobody else, and its file left out; the
\* identity's public half is read back from its file.
SetAgreementKey(t) ==
  /\ Provisions(t, "agreement")
  /\ \/ "key.pub" \in keyFiles[Place(t)] /\ Advance(t, "publish")
     \/ Refuse(t) /\ UNCHANGED secVars
  /\ UNCHANGED diskVars

\* The agreement half has no helper: it is written here, every time.
SaveAgreementPublicKey(t) ==
  /\ Provisions(t, "publish")
  /\ \/ /\ keyFiles' = [keyFiles EXCEPT ![Place(t)] = @ \cup {"agree.pub"}]
        /\ Advance(t, "revocation")
     \/ Refuse(t) /\ UNCHANGED <<secVars, keyFiles>>
  /\ UNCHANGED revoked

\* The list is loaded last, and the hub has its keys.
SetRevocationList(t) ==
  /\ Provisions(t, "revocation")
  /\ \/ prov[t].dir \in revoked /\ Advance(t, "held")
     \/ Refuse(t) /\ UNCHANGED secVars
  /\ UNCHANGED diskVars

\* LoadPeerKeys: the halves a peer would find under an address.  Without the
\* identity there is no knowing who that is; the agreement half is optional.
LoadPeerKeys(a, dir) ==
  LET found == keyFiles[<<dir, SecurityStemOf(a)>>] \cap {"key.pub", "agree.pub"} IN
  IF "key.pub" \in found THEN found ELSE {}

-----------------------------------------------------------------------------
(* Specification *)

\* Keys before the pump: a hub that could not be provisioned is not started.  One
\* that is not to be secure is started at once.
ProvStart(t) ==
  /\ Start(t)
  /\ prov[t].stage \in {"paths", "held"}
  /\ hubDir' = IF call'[t].at = "publish" THEN [hubDir EXCEPT ![call'[t].hub] = prov[t].dir]
                                          ELSE hubDir
  /\ prov' = [prov EXCEPT ![t] = Unstarted]
  /\ UNCHANGED <<secVars, diskVars>>

\* The next network is a new object.
ProvCleanup(t) ==
  /\ Cleanup(t)
  /\ secDir' = NoDir /\ secUsed' = FALSE
  /\ UNCHANGED <<diskVars, prov, hubDir>>

\* The hub's own note of the directory goes with it.
ProvDelete(t) ==
  /\ DeleteHub(t)
  /\ hubDir' = [hubDir EXCEPT ![call[t].hub] = NoDir]
  /\ UNCHANGED <<secVars, diskVars, prov>>

Provision(t) ==
  \/ SecurityPaths(t) \/ ProvisionAuth(t) \/ SetAgreementKey(t)
  \/ SaveAgreementPublicKey(t) \/ SetRevocationList(t)

\* The steps of the registry that leave security alone.
Elsewhere(t) ==
  /\ \/ Begin(t)
     \/ SweepTake(t) \/ CheckAddress(t) \/ Publish(t)
     \/ RemoveHub(t) \/ StopPump(t)
  /\ UNCHANGED provVars

ProvInit ==
  /\ Init
  /\ secDir = NoDir /\ secUsed = FALSE
  /\ keyFiles = [p \in Dirs \X Stems |-> {}] /\ revoked = {}
  /\ prov = [t \in Threads |-> Unstarted]
  /\ hubDir = [h \in Hubs |-> NoDir]

ProvNext ==
  \E t \in Threads :
    \/ \E dir \in Dirs \cup {NoDir} : SetSecurityDir(t, dir)
    \/ Provision(t) \/ ProvStart(t) \/ ProvCleanup(t) \/ ProvDelete(t) \/ Elsewhere(t)

ProvSpec == ProvInit /\ [][ProvNext]_<<vars, provVars>>

-----------------------------------------------------------------------------
(* Properties *)

\* An open secure hub holds its keys from the directory the network names, so
\* both ends of a link look in one place, and there a peer finds the two halves
\* that hub published and the revocation list without which it would not arm; no
\* other open hub holds the same keys.  SetSecurityDir, other creations of the
\* address, refusals half-way and a network released and made anew come between
\* the steps.
PeersFindKeys ==
  \A h \in listHubs : hubDir[h] # NoDir =>
    /\ hubDir[h] = secDir /\ secDir \in revoked
    /\ LoadPeerKeys(hub[h].address, secDir) = {"key.pub", "agree.pub"}
    /\ \A g \in listHubs \ {h} :
         hubDir[g] = hubDir[h] => SecurityStemOf(hub[g].address) # SecurityStemOf(hub[h].address)

\* What SetSecurityDir says when it refuses: that a hub was provisioned out of
\* the directory it will not move, unless one is about to.  It does not hold.
LatchedByAHub ==
  secUsed => \/ \E t \in Threads : prov[t].stage # "paths"
             \/ \E stem \in Stems : "key" \in keyFiles[<<secDir, stem>>]
=============================================================================
