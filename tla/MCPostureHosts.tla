--------------------------- MODULE MCPostureHosts ---------------------------
(***************************************************************************)
(* Hosts for Posture: what is true of the host, and what its tools answer  *)
(* when it is so: rightly, partly or not at all.  Each set varies what one *)
(* check reads and leaves the rest healthy.                                *)
(***************************************************************************)
EXTENDS PostureChecks

Ok(lines) == Done(0, lines, FALSE)
Failed(lines) ==
    {Broken} \cup {Done(st, lines, e) : st \in {None, 1, 3}, e \in BOOLEAN}
Trusted == [inFixedRoot |-> TRUE, rootOwned |-> TRUE, othersWrite |-> FALSE]
Node(crypt, root) == [crypt |-> crypt, root |-> root]
Checkout ==
    [ config |-> <<"origin", "url">>, detached |-> FALSE, loose |-> "new",
      packed |-> "old", commit |-> "new", upstream |-> "new",
      cache |-> TRUE, init |-> Ok({}), fetch |-> Ok({}),
      revParse |-> Ok({"new"}) ]
Healthy ==
    [ omarchy |-> "packaged", pending |-> {}, tmp |-> TRUE,
      checkupdates |-> Done(2, {}, FALSE), synced |-> TRUE,
      query |-> Done(1, {}, FALSE), git |-> Checkout,
      vulnerable |-> FALSE, auditTool |-> Trusted, audit |-> Ok({}),
      disks |-> Ok(<< <<Node(TRUE, FALSE), Node(FALSE, TRUE)>> >>),
      nftConfig |-> TRUE, ufwFiles |-> {}, nftUnit |-> Ok({}),
      ufwUnit |-> Done(3, {}, FALSE),
      nft |-> Ok(<<"chain", "hook", "policy", "}">>),
      ufwStatus |-> Broken, ufwEnabled |-> FALSE, sockets |-> Ok({}),
      uname |-> Ok({"k1"}), pacmanQ |-> Ok({"k1"}), installed |-> {"k1"},
      foreign |-> Ok({}), keyring |-> TRUE, path |-> {}, efi |-> TRUE,
      bootctl |-> Ok({"Secure Boot"}), sshd |-> Ok({}),
      sshdConfig |-> TRUE ]

\* checkupdates lists what is pending, says that there is nothing, or fails;
\* pacman -Qu then lists what the private database knows.
UpdateHosts ==
    UNION {
        LET lists == IF pending = {} THEN {} ELSE {Ok(pending)}
            nothing == {Done(1, {}, FALSE), Ok({})}
        IN {[Healthy EXCEPT !.omarchy = om, !.pending = pending,
                            !.checkupdates = up, !.synced = synced,
                            !.query = q] :
              up \in lists \cup Failed({}) \cup {Done(2, {}, FALSE), Ok({})},
              q \in {Broken, Done(1, {}, TRUE)}
                    \cup IF synced /\ pending # {} THEN lists ELSE nothing} :
        pending \in SUBSET {"pkg", "omarchy"}, om \in {"none", "packaged"},
        synced \in BOOLEAN}
    \cup {[Healthy EXCEPT !.tmp = FALSE]}

Configs ==
    UNION {[1..n -> {"origin", "section", "include", "helper", "url",
                     "badurl", "badfetch"}] : n \in 0..3}
WithGit(gits) ==
    {[Healthy EXCEPT !.omarchy = "checkout", !.git = g] : g \in gits}
\* Every configuration of up to three lines, and every state of the
\* references with every way the upstream may answer.
CheckoutHosts ==
    WithGit({[Checkout EXCEPT !.config = c] : c \in Configs \cup {None}})
    \cup WithGit({[Checkout EXCEPT !.cache = FALSE],
                  [Checkout EXCEPT !.init = Done(1, {}, TRUE)]})
    \cup WithGit(UNION {
        {[Checkout EXCEPT
             !.detached = d, !.loose = l, !.packed = p, !.upstream = u,
             !.commit = CASE d -> IF l = "junk" THEN None ELSE l
                          [] l = None -> p
                          [] l = "junk" -> None
                          [] OTHER -> l,
             !.fetch = f, !.revParse = r] :
             f \in {Ok({}), Broken, Done(1, {}, TRUE)},
             r \in {Ok({u}), Broken, Done(128, {"junk"}, TRUE)}} :
        d \in BOOLEAN, l \in {None, "junk", "old", "new"},
        p \in {None, "old", "new"}, u \in {"old", "new"}})

AuditHosts ==
    UNION {{[Healthy EXCEPT !.auditTool = t, !.vulnerable = v, !.audit = a] :
              a \in {Ok(IF v THEN {"avg"} ELSE {})} \cup Failed({})
                    \cup IF t = Trusted THEN {} ELSE {Ok({})}} :
        t \in [inFixedRoot : BOOLEAN, rootOwned : BOOLEAN,
               othersWrite : BOOLEAN],
        v \in BOOLEAN}

Paths == UNION {[1..n -> [crypt : BOOLEAN, root : BOOLEAN]] : n \in 1..2}
DiskHosts ==
    {[Healthy EXCEPT !.disks = d] :
        d \in {Ok(<<p>>) : p \in Paths} \cup {Ok(<<p, <<n>>>>) : p \in Paths,
                                    n \in [crypt : BOOLEAN, root : BOOLEAN]}
              \cup {Ok(<<>>), Ok(None)} \cup Failed(<<>>)}

Rulesets ==
    UNION {[1..n -> {"chain", "hook", "policy", "}"}] : n \in 0..4}
UnitAnswers == {Broken, Ok({}), Done(3, {}, FALSE), Done(1, {}, TRUE)}
FirewallHosts ==
    {[Healthy EXCEPT !.nft = Ok(r)] : r \in Rulesets}
    \cup {[Healthy EXCEPT !.nftConfig = c, !.ufwFiles = f] :
            c \in BOOLEAN, f \in {{}, {"conf"}}}
    \cup UNION {
        {[Healthy EXCEPT !.nft = n, !.nftUnit = x,
                         !.ufwUnit = y, !.ufwFiles = f, !.ufwEnabled = e,
                         !.ufwStatus = st] :
            st \in {Broken, Done(1, {}, TRUE),
                    Ok(IF e THEN {"active"} ELSE {"inactive"})},
            f \in {{"conf"}, {"conf", "rules"}}} :
        n \in {Broken, Ok(<<"chain", "rule", "}">>)},
        x, y \in UnitAnswers, e \in BOOLEAN}

\* pacman lists what is installed, or part of it with any exit status.
OtherHosts ==
    UNION {{[Healthy EXCEPT !.installed = k, !.uname = u, !.pacmanQ = q] :
              q \in {Broken} \cup {Done(st, l, FALSE) :
                                      st \in {0, 1}, l \in SUBSET k}} :
        k \in SUBSET {"k1", "k2"}, u \in {Ok({"k1"}), Ok({}), Broken}}
    \cup {[Healthy EXCEPT !.sockets = a, !.foreign = b, !.bootctl = c,
                          !.efi = d] :
            a, b \in {Ok({}), Done(1, {}, TRUE)}, d \in BOOLEAN,
            c \in {Ok({"Secure Boot"}), Ok({}), Broken}}
    \cup {[Healthy EXCEPT !.sshd = a, !.sshdConfig = b, !.keyring = c,
                          !.path = d] :
            a \in UnitAnswers, b, c \in BOOLEAN,
            d \in SUBSET [exists : BOOLEAN, worldWritable : BOOLEAN]}

Hosts == UpdateHosts \cup (CheckoutHosts \cup (AuditHosts \cup (DiskHosts
         \cup (FirewallHosts \cup OtherHosts))))

\* Three conditions of one host, as the checks of audit and firewall see it:
\* pass and pass, regression and incomplete, incomplete and attention.
Conditions ==
    { Healthy,
      [Healthy EXCEPT !.vulnerable = TRUE, !.audit = Ok({"avg"}),
                      !.nft = Broken],
      [Healthy EXCEPT !.audit = Broken, !.nft = Ok(<<>>)] }
=============================================================================
