------------------------- MODULE MCIntegrationSuites -------------------------
(***************************************************************************)
(* Two runners against one server with the pass-through authorizer.        *)
(***************************************************************************)
EXTENDS IntegrationSuites, TLC

CONSTANTS c1, c2, anonymous

\* A filter that selects no suite, or one.
AllSuites == {SuiteNames[n] : n \in 1..Len(SuiteNames)}
MCSelections == {{}} \cup {{name} : name \in AllSuites}

\* A runner that is alone loses patience once, or twice if its suite is
\* small.  Of two with small suites, the first does once.
Small == {{}, {"error-responses"}, {"wac"}}
Impatience ==
  [s \in [Runners -> MCSelections] |->
     LET alone == \E d \in Runners : s[d] = {}
         small == \A d \in Runners : s[d] \in Small
     IN [c \in Runners |-> IF alone THEN IF small THEN 2 ELSE 1
                           ELSE IF small /\ c = c1 THEN 1 ELSE 0]]

MCRequests == {c1, c2} \X (1..17)
MCNames == MCRequests \cup {File}
             \cup {<<c, name, i>> : c \in {c1, c2}, name \in AllSuites,
                                    i \in 1..MaxCases}
MCTargets == {}
MCMethods == {"GET", "HEAD", "PUT", "POST", "DELETE", "OPTIONS", "PATCH"}
MCContentTypes == {Turtle, Plaintext}
MCAccepts == {{}, {Turtle}, {JsonLd}, {Unknown}}
MCGrants ==
  [p \in Policies |-> {anonymous} \X Key \X {"verbatim"} \X {"Read", "Write"}]
MCSplitLimit == 100
=============================================================================
