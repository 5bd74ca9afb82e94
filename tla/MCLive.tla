------------------------------ MODULE MCLive -------------------------------
(***************************************************************************)
(* What must sooner or later happen: the phone's fixes are stored (Ingest, *)
(* the short session), what is billed gets its figure (Figures), the held  *)
(* earnings of a driver come back (BrandingProofs). A behaviour follows    *)
(* the component `focus` names, under the fairness of that one; the others *)
(* rest.                                                                   *)
(***************************************************************************)
EXTENDS MCIngest, Figures, BrandingProofs

VARIABLE focus

TheCellOf == <<1, 1>>
TheHourOf == <<1, 2>>

liveVars == <<ingestVars, figuresVars, proofsVars, focus>>

LiveInit ==
    /\ IngestInit /\ FiguresInit /\ ProofsInit
    /\ focus \in {"ingest", "figures", "proofs"}

OnIngest == focus = "ingest" /\ IngestNext /\ UNCHANGED <<figuresVars, proofsVars, focus>>
OnFigures == focus = "figures" /\ FiguresNext /\ UNCHANGED <<ingestVars, proofsVars, focus>>
OnProofs == focus = "proofs" /\ ProofsNext /\ UNCHANGED <<ingestVars, figuresVars, focus>>

LiveNext == OnIngest \/ OnFigures \/ OnProofs

(* Fairness, FiguresFairness and ProofsFairness, each under its focus.     *)
LiveFairness ==
    /\ \A c \in Calls :
          /\ WF_ingestVars(focus = "ingest" /\ Send(c))
          /\ WF_ingestVars(focus = "ingest" /\ Server(c))
          /\ WF_ingestVars(focus = "ingest" /\ Answer(c))
    /\ <>[][~Faulty]_ingestVars
    /\ WF_figuresVars(focus = "figures" /\ Night)
    /\ WF_figuresVars(focus = "figures" /\ (TakeRecompute \/ RecomputeStep))
    /\ WF_figuresVars(focus = "figures"
                         /\ (TakeCompute \/ RunStep(ComputeJob) \/ FinishCompute))
    /\ WF_figuresVars(focus = "figures"
                         /\ ((process # "up" /\ CloseNext) \/ Exit \/ Restart))
    /\ \A p \in Phones : WF_proofsVars(focus = "proofs" /\ PhoneSteps(p))
    /\ \A w \in Wraps : SF_proofsVars(focus = "proofs" /\ Obeys(w))

LiveSpec == LiveInit /\ [][LiveNext]_liveVars /\ LiveFairness
=============================================================================
