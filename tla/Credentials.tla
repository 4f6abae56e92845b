---------------------------- MODULE Credentials ----------------------------
(***************************************************************************)
(* What the cloud executors send along: a token of the metadata server     *)
(* (app/executors/gcpapi.py), keys of STS (app/executors/awsapi.py), and,  *)
(* made from those, a token for one EKS cluster (app/executors/ekstoken.py *)
(* and eks_direct_flags of app/executors/k8s.py), with the cluster's       *)
(* address and certificate.  All are fetched by calls that block the event *)
(* loop, and all but the EKS token are kept.                               *)
(*                                                                         *)
(* A cluster that is made anew under its name has another address and      *)
(* another certificate: both stand for which cluster it is.                *)
(***************************************************************************)
EXTENDS Integers

CONSTANTS
  CloudCalls,     \* bound: the calls
  Margin,         \* what a kept credential must have left to be used
  GcpLives,       \* bound: expires_in of the metadata server's tokens
  RoleLife,       \* how long STS gives keys for
  IrsaLife,       \* how long they are kept for
  EksLife,        \* _EXPIRY_SECONDS
  FetchLag,       \* the longest that an answered fetch takes
  Lag,            \* the longest that an answered request takes to be read
  MaxCredTime,    \* bound: ticks
  MaxClusters,    \* bound: clusters of the one name
  Torn            \* a certificate file that is being written

ASSUME CredentialsAssumption ==
  /\ {Margin, FetchLag, Lag, MaxCredTime} \subseteq Nat
  /\ {RoleLife, IrsaLife, EksLife, MaxClusters} \cup GcpLives \subseteq Nat \ {0}
  /\ Torn = -1 /\ 0 \notin CloudCalls

VARIABLES
  credTime,
  static,    \* the clouds whose credentials are in the environment
  held,      \* _token_cache, _irsa_cache: [dies, until], until what is believed
  details,   \* _EKS_DETAILS: the cluster that was described; 0 if none
  caFile,    \* the cluster whose certificate is in the file, 0 if none, or Torn
  cluster,   \* the cluster of the name
  looping,   \* the call that blocks the event loop
  cloudCall  \* the calls: [pc, api, dies, life, since, ca, server, error, near]

credVars == <<credTime, static, held, details, caFile, cluster, looping, cloudCall>>

Clouds == {"gcp", "aws"}
NoCall == 0
NoCredential == [dies |-> 0, until |-> 0, life |-> 0]
NewCloudCall ==
  [pc |-> "new", api |-> "", dies |-> 0, life |-> 0, since |-> 0, ca |-> 0, server |-> 0,
   error |-> "", near |-> FALSE]

CredentialsInit ==
  /\ credTime = 0 /\ static \in SUBSET Clouds
  /\ held = [k \in Clouds |-> NoCredential]
  /\ details = 0 /\ caFile = 0 /\ cluster = 1
  /\ looping = NoCall
  /\ cloudCall = [c \in CloudCalls |-> NewCloudCall]

-----------------------------------------------------------------------------
(* Up to the request: one call at a time, since nothing of it is awaited.  *)

CloudOf(api) == IF api = "gcp" THEN "gcp" ELSE "aws"

\* Mutant of Kept: used until it is over.
KeptToTheEnd(cloud) == held[cloud].until > credTime

\* The one minute that a kept credential must have left.
Kept(cloud) == held[cloud].until > credTime + Margin

\* The call goes on to pc, at this moment; a blocking one keeps the loop.
Goes(c, call, pc) ==
  /\ looping' = IF pc = "sent" THEN NoCall ELSE c
  /\ cloudCall' = [cloudCall EXCEPT ![c] = [call EXCEPT !.pc = pc, !.since = credTime]]

\* Nothing is asked of a call that is over, but why it failed.
CallOver(c, error) ==
  LET call == cloudCall[c]
      past == IF error = "" THEN NewCloudCall
              ELSE [NewCloudCall EXCEPT !.api = call.api, !.life = call.life,
                                        !.server = call.server, !.near = call.near]
  IN cloudCall' = [cloudCall EXCEPT ![c] = [past EXCEPT !.pc = "over", !.error = error]]

\* eks_token: good for EksLife, for the cluster that is its signed header, and for no longer
\* than the keys that sign it.
EksToken(cred) ==
  [dies |-> IF cred.dies < credTime + EksLife THEN cred.dies ELSE credTime + EksLife]

\* With a credential in hand: the cluster is described first, if it was not yet; its certificate
\* is written to the one file, over what a kubectl that has just begun may be reading.
Equipped(c, call, cred, known) ==
  IF call.api # "eks"
  THEN Goes(c, [call EXCEPT !.dies = cred.dies, !.life = cred.life], "sent") /\ UNCHANGED caFile
  ELSE IF known = 0 THEN Goes(c, call, "describing") /\ UNCHANGED caFile
  ELSE /\ looping' = c /\ caFile' = Torn
       /\ cloudCall' = [d \in CloudCalls |->
            IF d = c
            THEN [call EXCEPT !.pc = "writing", !.since = credTime, !.life = cred.life,
                              !.dies = EksToken(cred).dies, !.server = known]
            ELSE [cloudCall[d] EXCEPT !.near = @ \/ (cloudCall[d].pc = "sent" /\ cloudCall[d].api = "eks")]]

\* _token and _creds: the environment's first, then what is kept, else it is fetched.
Equips(c, call, known) ==
  LET cloud == CloudOf(call.api)
  IN IF cloud \in static THEN Equipped(c, call, [dies |-> MaxCredTime, life |-> MaxCredTime], known)
     ELSE IF Kept(cloud) THEN Equipped(c, call, held[cloud], known)
     ELSE Goes(c, call, "fetching") /\ UNCHANGED caFile

BeginCloudCall(c) ==
  /\ looping = NoCall /\ cloudCall[c].pc = "new"
  /\ \E api \in {"gcp", "aws", "eks"} : Equips(c, [cloudCall[c] EXCEPT !.api = api], details)
  /\ UNCHANGED <<credTime, static, held, details, cluster>>

\* _metadata_token and _irsa_creds.  The server gave it at some moment since it was asked, for
\* what it says (expires_in) or for RoleLife; it is believed from when it is received.
CredentialFetched(c) ==
  LET cloud == CloudOf(cloudCall[c].api)
  IN /\ cloudCall[c].pc = "fetching"
     /\ \E given \in cloudCall[c].since..credTime,
           life \in IF cloud = "gcp" THEN GcpLives ELSE {RoleLife} :
          LET cred == [dies |-> given + life, life |-> life,
                       until |-> credTime + IF cloud = "gcp" THEN life ELSE IrsaLife]
          IN held' = [held EXCEPT ![cloud] = cred] /\ Equipped(c, cloudCall[c], cred, details)
     /\ UNCHANGED <<credTime, static, details, cluster>>

\* _eks_cluster_details, by aws_get_json; then the keys are asked for once more.
Described(c) ==
  /\ cloudCall[c].pc = "describing"
  /\ details' = cluster
  /\ Equips(c, cloudCall[c], cluster)
  /\ UNCHANGED <<credTime, static, held, cluster>>

\* No answer, or none that is of use: "No GCP credentials", "No AWS credentials", or the
\* error of DescribeCluster.  Nothing is kept of it.
FetchGoesWrong(c) ==
  /\ cloudCall[c].pc \in {"fetching", "describing"}
  /\ CallOver(c, "not fetched") /\ looping' = NoCall
  /\ UNCHANGED <<credTime, static, held, details, caFile, cluster>>

CertificateWritten(c) ==
  /\ cloudCall[c].pc = "writing"
  /\ caFile' = cloudCall[c].server
  /\ Goes(c, cloudCall[c], "sent")
  /\ UNCHANGED <<credTime, static, held, details, cluster>>

-----------------------------------------------------------------------------
(* The request.                                                            *)

\* kubectl reads the file as it starts, which is whenever the kernel lets it.
KubectlStarts(c) ==
  /\ cloudCall[c].pc = "sent" /\ cloudCall[c].api = "eks" /\ cloudCall[c].ca = 0
  /\ IF caFile = Torn THEN CallOver(c, "unreadable certificate")
     ELSE cloudCall' = [cloudCall EXCEPT ![c].ca = caFile]
  /\ UNCHANGED <<credTime, static, held, details, caFile, cluster, looping>>

\* The API reads the request.  What the environment holds may have run out at any time.
RequestRead(c) ==
  LET call == cloudCall[c]
      out == IF CloudOf(call.api) \in static THEN BOOLEAN ELSE {call.dies <= credTime}
  IN /\ call.pc = "sent" /\ (call.api = "eks" => call.ca # 0)
     /\ IF call.api = "eks" /\ {call.ca, call.server} # {cluster}
        THEN CallOver(c, "another cluster")
        ELSE \E expired \in out : CallOver(c, IF expired THEN "expired" ELSE "")
     /\ UNCHANGED <<credTime, static, held, details, caFile, cluster, looping>>

Unreachable(c) ==
  /\ cloudCall[c].pc = "sent" /\ CallOver(c, "unreachable")
  /\ UNCHANGED <<credTime, static, held, details, caFile, cluster, looping>>

-----------------------------------------------------------------------------

\* The cluster is made anew.
ClusterReplaced ==
  /\ cluster < MaxClusters /\ cluster' = cluster + 1
  /\ UNCHANGED <<credTime, static, held, details, caFile, looping, cloudCall>>

\* A fetch and a request are answered, or fail, in their time.
CredTimePasses ==
  /\ credTime < MaxCredTime /\ credTime' = credTime + 1
  /\ \A c \in CloudCalls :
       LET call == cloudCall[c]
       IN /\ call.pc # "writing"
          /\ call.pc \in {"fetching", "describing"} => credTime - call.since < FetchLag
          /\ call.pc = "sent" => credTime - call.since < Lag
  /\ UNCHANGED <<static, held, details, caFile, cluster, looping, cloudCall>>

CredentialsNext ==
  \/ \E c \in CloudCalls :
       \/ BeginCloudCall(c) \/ CredentialFetched(c) \/ Described(c) \/ FetchGoesWrong(c)
       \/ CertificateWritten(c) \/ KubectlStarts(c) \/ RequestRead(c) \/ Unreachable(c)
  \/ ClusterReplaced \/ CredTimePasses

CredentialsSpec == CredentialsInit /\ [][CredentialsNext]_credVars

-----------------------------------------------------------------------------
\* No kept credential runs out under a call that uses it, however long the call was on its way
\* (gcpapi.py:52-72, awsapi.py:58-60, 102-103), and no other call takes the certificate from a
\* kubectl that it does not overlap: what goes wrong is the environment's credential, one that
\* was given for less than a request takes, a file that another call was writing, or a cluster
\* that is not the one that was described.
RefusalsHaveACause ==
  \A c \in CloudCalls :
    LET call == cloudCall[c]
    IN /\ call.error = "expired" => CloudOf(call.api) \in static \/ call.life <= FetchLag + Lag
       /\ call.error = "unreadable certificate" => call.near
       /\ call.error = "another cluster" => call.server < cluster
=============================================================================
