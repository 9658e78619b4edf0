---------------------------- MODULE MCPosSession ----------------------------
(***************************************************************************)
(* Sets of modes and entries that keep the session small and still meet    *)
(* every branch of the sagas: a mode that disables the scanner, the modes  *)
(* that decide how a transaction closes, those that keep a mode, and the   *)
(* modes in which a data event is handled in a way of its own.             *)
(***************************************************************************)
EXTENDS PosSession

CONSTANTS op1, op2

MCOps == {op1, op2}

MCOneOp == {op1}

\* Of a sale: closing, voiding, returning, balance inquiry.
SaleModes == {"Unset", "Tendering", "VoidTransaction", "BalanceInquiry", "GiftCardIssue",
              "WaitingForInput", "ReturnWithTransaction"}

\* Of the searches and inquiries a data event is handled in.
InquiryScreens == {"Unset", "Tendering", "ProductInquiry", "CustomerSearch", "AssignMember",
                   "PaidOperation", "ReceiptPrinterChoice", "ReturnTransactionSearch",
                   "ValueCertificateSearch"}

AllScreens == SaleModes \cup InquiryScreens

HistoryScreens == {"Unset", "TransactionHistory"}

Identified == Entries \ {"Unidentified"}
=============================================================================
